---------------------------- MODULE Spec2Model ----------------------------
(***************************************************************************)
(* Model of the launch core of ccs (Claude Code Switch): the symlink       *)
(* synchroniser, the MCP merge, the cleanup policies and runClaude, as     *)
(* written in src/src/runner.ts (lines 1-487), with expandPath and the     *)
(* provider store of src/unnamed/part_004 and the state store of           *)
(* src/unnamed/part_008.                                                   *)
(***************************************************************************)
EXTENDS Integers, Sequences, FiniteSets, TLC

VARIABLES
    fs,        \* directory entries: absolute path components -> node
    dirs,      \* state of the provider config directories
    docs,      \* the .claude.json document of each config directory
    store,     \* the caches, session files and history of each config directory
    last,      \* the last completed call: arguments, result, state before it
    clock,     \* Date.now()
    provider_state,  \* the provider_state table: provider key -> last reset
    penv,      \* process.env of the CLI
    config,    \* the provider store, the file config.json: its status, current
               \* key and providers by key
    run,       \* the runClaude invocations
    resetLog   \* the executions of resetMemory so far: provider key, time and
               \* invocation

vars == <<fs, dirs, docs, store, last, clock, provider_state, penv, config, run,
         resetLog>>

-----------------------------------------------------------------------------
(* Bounds of the model *)

\* how many entries of SHARED_RESOURCES start in an arbitrary state
MaxVaried == 1
\* how many servers an mcpServers mapping holds at most
MaxServers == 2
\* how many symbolic links existsSync follows before it gives up (ELOOP)
MaxLinkDepth == 3
\* the days the clock of the reset gate may advance
MaxDays == 2
\* the milliseconds the clock may be away from a whole number of days
MaxSkew == 2
\* how many records a newline-delimited file holds at most
MaxRecords == 56

-----------------------------------------------------------------------------
(* Paths.  A path string is its components, whether it starts with "~" and *)
(* whether it ends with a separator; two path strings are === exactly when *)
(* the three agree.                                                        *)

Path(tilde, comps, slash) == [tilde |-> tilde, comps |-> comps, slash |-> slash]

NoPath == Path(FALSE, <<>>, FALSE)

homedir == Path(FALSE, <<"home", "u">>, FALSE)

\* path.join: concatenates and normalises; the result of joining a name has
\* no trailing separator
join(p, name) == Path(p.tilde, p.comps \o <<name>>, FALSE)

\* path.dirname
dirname(p) == Path(p.tilde, SubSeq(p.comps, 1, Len(p.comps) - 1), FALSE)

\* expandPath: join(homedir(), path.slice(1)) when the path starts with "~";
\* join keeps a trailing separator of its last argument
expandPath(p) ==
    IF p.tilde THEN Path(FALSE, homedir.comps \o p.comps, p.slash) ELSE p

\* the configDir strings the model calls the core with
CLAUDE       == Path(TRUE, <<".claude">>, FALSE)          \* "~/.claude"
CLAUDE_SLASH == Path(TRUE, <<".claude">>, TRUE)           \* "~/.claude/"
CLAUDE_ABS   == Path(FALSE, <<"home", "u", ".claude">>, FALSE)
GLM          == Path(TRUE, <<".claude-glm">>, FALSE)      \* "~/.claude-glm"

ConfigDirs == {CLAUDE, CLAUDE_SLASH, CLAUDE_ABS, GLM}

ClaudeDir == <<"home", "u", ".claude">>
GlmDir    == <<"home", "u", ".claude-glm">>

\* the directory a path string names, whatever its spelling
SameDirectory(p, q) == expandPath(p).comps = expandPath(q).comps

-----------------------------------------------------------------------------
(* Program constants *)

SHARED_RESOURCES ==
    << "commands", "settings.json", "plugins", "skills", "agents",
       "CLAUDE.md", "AGENTS.md", "prompts", ".ccsignore" >>

Resources == {SHARED_RESOURCES[i] : i \in 1..Len(SHARED_RESOURCES)}

\* every source taken from ~/.claude, .ccsignore included
sourceOfInClaudeDir(resource) == join(expandPath(CLAUDE), resource)

\* the source of a shared resource (ensureSharedResources, syncSharedResources)
sourceOf(resource) ==
    IF resource = ".ccsignore"
    THEN expandPath(Path(TRUE, <<".ccsignore">>, FALSE))
    ELSE join(expandPath(CLAUDE), resource)

-----------------------------------------------------------------------------
(* The file system *)

Node(kind, to, data) == [kind |-> kind, to |-> to, data |-> data]
None        == Node("none", NoPath, 0)
File(d)     == Node("file", NoPath, d)
Dir(d)      == Node("dir", NoPath, d)
Link(p)     == Node("link", p, 0)

World(f, d, j, c) == [fs |-> f, dirs |-> d, docs |-> j, store |-> c]

\* "ok": exists and writable; "readonly": exists, every change of its entries
\* fails; "missing": absent, mkdir creates it; "blocked": absent, mkdir fails
DirStates == {"ok", "readonly", "missing", "blocked"}

DirState(W, d) ==
    IF d \in DOMAIN W.dirs THEN W.dirs[d]
    ELSE IF d = homedir.comps THEN "ok" ELSE "missing"

DirExists(W, d) == DirState(W, d) \in {"ok", "readonly"}

Parent(c) == SubSeq(c, 1, Len(c) - 1)

\* lstatSync: the entry itself, None when it or its directory is absent
lstatSync(W, p) ==
    IF p.comps \in DOMAIN W.fs /\ DirExists(W, Parent(p.comps))
    THEN W.fs[p.comps] ELSE None

RECURSIVE Resolves(_, _, _)
Resolves(W, p, fuel) ==
    IF p.comps \in DOMAIN W.dirs \/ p.comps = homedir.comps
    THEN DirExists(W, p.comps)
    ELSE LET n == lstatSync(W, p)
         IN  CASE n.kind = "none" -> FALSE
               [] n.kind = "link" ->
                    IF fuel = 0 THEN FALSE ELSE Resolves(W, n.to, fuel - 1)
               [] OTHER -> TRUE

\* existsSync follows symbolic links; a dangling or cyclic link does not exist
existsSync(W, p) == Resolves(W, p, MaxLinkDepth)

\* rmSync inside ensureSymlink's try block: a failure is caught there
rmSync(W, p) ==
    IF DirState(W, Parent(p.comps)) = "ok" /\ p.comps \in DOMAIN W.fs
    THEN [W EXCEPT !.fs[p.comps] = None]
    ELSE W

\* mkdirSync(parentDir, {recursive: true}), called outside any try block
mkdirSync(W, d) ==
    IF DirState(W, d.comps) = "missing" /\ d.comps \in DOMAIN W.dirs
    THEN [threw |-> FALSE, W |-> [W EXCEPT !.dirs[d.comps] = "ok"]]
    ELSE [threw |-> TRUE, W |-> W]

\* symlinkSync(source, target): fails when the entry exists or cannot be made
symlinkSync(W, source, target) ==
    IF /\ DirState(W, Parent(target.comps)) = "ok"
       /\ target.comps \in DOMAIN W.fs
       /\ W.fs[target.comps].kind = "none"
    THEN [ok |-> TRUE, W |-> [W EXCEPT !.fs[target.comps] = Link(source)]]
    ELSE [ok |-> FALSE, W |-> W]

-----------------------------------------------------------------------------
(* Symlink synchroniser *)

Outcome(ret, threw, W) == [ret |-> ret, threw |-> threw, W |-> W]

\* if (!force) return false: a real file or directory is kept
skipsRealEntryNever(force) == FALSE

skipsRealEntry(force) == ~force

ensureSymlink(W, source, target, force) ==
    IF ~existsSync(W, source) THEN Outcome(FALSE, FALSE, W)
    ELSE
      LET n == lstatSync(W, target)
          chk ==
            IF n.kind = "link"
            THEN IF n.to = source
                 THEN [done |-> TRUE, W |-> W]
                 ELSE [done |-> FALSE, W |-> rmSync(W, target)]
            ELSE IF n.kind # "none" /\ existsSync(W, target)
                 THEN IF skipsRealEntry(force)
                      THEN [done |-> TRUE, W |-> W]
                      ELSE [done |-> FALSE, W |-> rmSync(W, target)]
                 ELSE [done |-> FALSE, W |-> W]
      IN  IF chk.done THEN Outcome(FALSE, FALSE, W)
          ELSE
            LET parentDir == dirname(target)
                mk == IF ~existsSync(chk.W, parentDir)
                      THEN mkdirSync(chk.W, parentDir)
                      ELSE [threw |-> FALSE, W |-> chk.W]
            IN  IF mk.threw THEN Outcome(FALSE, TRUE, mk.W)
                ELSE LET ln == symlinkSync(mk.W, source, target)
                     IN  Outcome(ln.ok, FALSE, ln.W)

-----------------------------------------------------------------------------
(* JSON documents.  An object is the ordered list of its entries, as        *)
(* JSON.parse builds it and JSON.stringify prints it.                       *)

Entry(k, v) == [k |-> k, v |-> v]

Keys(m) == {m[i].k : i \in 1..Len(m)}

Get(m, k) == m[CHOOSE i \in 1..Len(m) : m[i].k = k].v

\* JSON.stringify of a mapping: its entries in insertion order
JSON_stringify(m) == [i \in 1..Len(m) |-> <<m[i].k, m[i].v>>]

\* { ...t, ...s }: the keys of t keep their place, s gives the value of every
\* key it has, the keys only s has follow in the order of s
SpreadTargetWins(t, s) == t \o SelectSeq(s, LAMBDA e : e.k \notin Keys(t))

Spread(t, s) ==
    [i \in 1..Len(t) |->
        IF t[i].k \in Keys(s) THEN Entry(t[i].k, Get(s, t[i].k)) ELSE t[i]]
    \o SelectSeq(s, LAMBDA e : e.k \notin Keys(t))

\* a .claude.json file: absent, unparseable ("bad": the fields tell what its
\* text holds, which no JSON.parse gives back) or an object ("ok") with
\* an optional mcpServers mapping, an optional oauthAccount ("absent": no such
\* key, "acct": an account object, "null": the key with the value null) and
\* one more key
Doc(st, hasMcp, mcp, oauth, theme) ==
    [st |-> st, hasMcp |-> hasMcp, mcp |-> mcp, oauth |-> oauth, theme |-> theme]

NoDoc    == Doc("absent", FALSE, <<>>, "absent", "absent")
BadDoc   == Doc("bad", FALSE, <<>>, "absent", "absent")
\* a document cut short while it was written: a server, an account, a theme
CutDoc   == Doc("bad", TRUE, <<Entry("c", 1)>>, "acct", "dark")
EmptyObj == Doc("ok", FALSE, <<>>, "absent", "absent")

docFile(dir) == join(dir, ".claude.json")

readFileSync(W, file) ==
    IF Parent(file.comps) \in DOMAIN W.docs /\ DirExists(W, Parent(file.comps))
    THEN W.docs[Parent(file.comps)] ELSE NoDoc

existsFile(W, file) == readFileSync(W, file).st # "absent"

\* writeFileSync: throws when the directory is absent or not writable
writeFileSync(W, file, doc) ==
    IF /\ Parent(file.comps) \in DOMAIN W.docs
       /\ DirState(W, Parent(file.comps)) = "ok"
    THEN [threw |-> FALSE, W |-> [W EXCEPT !.docs[Parent(file.comps)] = doc]]
    ELSE [threw |-> TRUE, W |-> W]

\* sourceData.mcpServers || {}
mcpServersOf(data) == IF data.hasMcp THEN data.mcp ELSE <<>>

-----------------------------------------------------------------------------
(* MCP merge *)

\* what can be made out of a file that does not parse is taken as the
\* starting document
targetDataOfSalvaged(raw) == Doc("ok", raw.hasMcp, raw.mcp, raw.oauth, raw.theme)

\* let targetData = {}; replaced by the parsed file when the file exists and
\* JSON.parse does not throw
targetDataOf(raw) == IF raw.st = "ok" THEN raw ELSE EmptyObj

McpOutcome(ret, W) == [ret |-> ret, W |-> W]

\* the mapping the sync command merges: the source alone under force
mergedForSyncKeepTarget(targetMcpServers, sourceMcpServers, force) ==
    Spread(targetMcpServers, sourceMcpServers)

mergedForSync(targetMcpServers, sourceMcpServers, force) ==
    IF force THEN sourceMcpServers
    ELSE Spread(targetMcpServers, sourceMcpServers)

\* the document written back: targetData with mcpServers replaced
withMcpServersOnly(targetData, merged) ==
    Doc("ok", TRUE, merged, "absent", "absent")

withMcpServers(targetData, merged) ==
    Doc("ok", TRUE, merged, targetData.oauth, targetData.theme)

\* the test that decides whether the document is written
mcpChanged(targetMcpServers, mergedMcpServers) ==
    JSON_stringify(targetMcpServers) # JSON_stringify(mergedMcpServers)

syncMcpServersForSync(W, configDir, force) ==
    LET targetDir  == expandPath(configDir)
        sourceDir  == expandPath(CLAUDE)
        sourceFile == docFile(sourceDir)
        sourceData == readFileSync(W, sourceFile)
        sourceMcpServers == mcpServersOf(sourceData)
        targetFile == docFile(targetDir)
        targetRaw  == readFileSync(W, targetFile)
        targetData == targetDataOf(targetRaw)
        targetMcpServers == mcpServersOf(targetData)
        mergedMcpServers ==
            mergedForSync(targetMcpServers, sourceMcpServers, force)
    IN  IF targetDir = sourceDir THEN McpOutcome("null", W)
        ELSE IF ~existsFile(W, sourceFile) THEN McpOutcome("null", W)
        ELSE IF sourceData.st = "bad" THEN McpOutcome("null", W)
        ELSE IF Len(sourceMcpServers) = 0 THEN McpOutcome("null", W)
        ELSE IF mcpChanged(targetMcpServers, mergedMcpServers)
             THEN LET w == writeFileSync(W, targetFile,
                               withMcpServers(targetData, mergedMcpServers))
                  IN  IF w.threw THEN McpOutcome("null", W)
                      ELSE McpOutcome("true", w.W)
             ELSE McpOutcome("false", W)

\* runClaude's merge: never forced, no result; "warned" stands for the
\* warning line of its catch block
syncMcpServers(W, configDir) ==
    LET targetDir  == expandPath(configDir)
        sourceDir  == expandPath(CLAUDE)
        sourceFile == docFile(sourceDir)
        sourceData == readFileSync(W, sourceFile)
        sourceMcpServers == mcpServersOf(sourceData)
        targetFile == docFile(targetDir)
        targetRaw  == readFileSync(W, targetFile)
        targetData == targetDataOf(targetRaw)
        targetMcpServers == mcpServersOf(targetData)
        mergedMcpServers == Spread(targetMcpServers, sourceMcpServers)
    IN  IF targetDir = sourceDir THEN McpOutcome("void", W)
        ELSE IF ~existsFile(W, sourceFile) THEN McpOutcome("void", W)
        ELSE IF sourceData.st = "bad" THEN McpOutcome("warned", W)
        ELSE IF Len(sourceMcpServers) = 0 THEN McpOutcome("void", W)
        ELSE IF mcpChanged(targetMcpServers, mergedMcpServers)
             THEN LET w == writeFileSync(W, targetFile,
                               withMcpServers(targetData, mergedMcpServers))
                  IN  IF w.threw THEN McpOutcome("warned", W)
                      ELSE McpOutcome("void", w.W)
             ELSE McpOutcome("void", W)

-----------------------------------------------------------------------------
(* syncSharedResources *)

SyncResult(resource, status) == [resource |-> resource, status |-> status]

RECURSIVE syncLoop(_, _, _, _, _)
syncLoop(W, targetDir, force, i, results) ==
    IF i > Len(SHARED_RESOURCES)
    THEN [threw |-> FALSE, W |-> W, results |-> results]
    ELSE
      LET resource == SHARED_RESOURCES[i]
          source   == sourceOf(resource)
          target   == join(targetDir, resource)
          n        == lstatSync(W, target)
      IN  IF ~existsSync(W, source)
          THEN syncLoop(W, targetDir, force, i + 1,
                        Append(results, SyncResult(resource, "skipped")))
          ELSE IF n.kind = "link" /\ n.to = source
          THEN syncLoop(W, targetDir, force, i + 1,
                        Append(results, SyncResult(resource, "exists")))
          ELSE
            LET created == ensureSymlink(W, source, target, force)
                status  == IF created.ret
                           THEN (IF force THEN "forced" ELSE "created")
                           ELSE "skipped"
            IN  IF created.threw
                THEN [threw |-> TRUE, W |-> created.W, results |-> results]
                ELSE syncLoop(created.W, targetDir, force, i + 1,
                              Append(results, SyncResult(resource, status)))

\* the guard of syncSharedResources: is configDir the source itself?
isSourceItself(configDir) == expandPath(configDir) = expandPath(CLAUDE)

syncSharedResources(W, configDir, force) ==
    IF isSourceItself(configDir)
    THEN [ret |-> "null", results |-> <<>>, W |-> W]
    ELSE
      LET l == syncLoop(W, expandPath(configDir), force, 1, <<>>)
      IN  IF l.threw
          THEN [ret |-> "throw", results |-> <<>>, W |-> l.W]
          ELSE
            LET mcpSynced == syncMcpServersForSync(l.W, configDir, force)
            IN  [ret |-> "list",
                 results |->
                    IF mcpSynced.ret # "null"
                    THEN Append(l.results,
                           SyncResult("mcpServers",
                              IF mcpSynced.ret = "true" THEN "created"
                              ELSE "exists"))
                    ELSE l.results,
                 W |-> mcpSynced.W]

-----------------------------------------------------------------------------
(* Cleanup and truncation *)

CLEAN_SHELL_SNAPSHOTS == 10485760
CLEAN_DEBUG == 5242880
CLEAN_HISTORY == 2097152
MAX_SESSION_SIZE == 10485760
\* the truncation ratios, in tenths: 0.2 for sessions, 0.3 for history.jsonl
SESSION_TRUNCATION_RATIO == 2
HISTORY_TRUNCATION_RATIO == 3
\* sessions of at most this many lines are kept as they are
MIN_LINES == 10

MEMORY_RESET_TARGETS ==
    << "projects", "file-history", "session-env", "plans", "todos" >>

CLEAN_THRESHOLDS ==
    << [subdir |-> "shell-snapshots", threshold |-> CLEAN_SHELL_SNAPSHOTS],
       [subdir |-> "debug", threshold |-> CLEAN_DEBUG],
       [subdir |-> "history.jsonl", threshold |-> CLEAN_HISTORY] >>

\* the subtrees the model keeps only the size of
TreeNames ==
    {"file-history", "session-env", "plans", "todos", "shell-snapshots", "debug"}

\* a newline-delimited file.  lines: content.split('\n'), a record as its
\* number (the records of a file are numbered as they were appended), a line
\* that is empty or blank as 0; no line at all: the file is absent.
\* recBytes: the bytes of each record.  jsonl: the name ends with ".jsonl".
\* at: where the file lies: "root" (<configDir>/), "top" (projects/),
\* "project" (projects/<project>/), "nested" (projects/<project>/<dir>/)
Jsonl(at, jsonl, lines, recBytes) ==
    [at |-> at, jsonl |-> jsonl, lines |-> lines, recBytes |-> recBytes]
NoFile == Jsonl("root", TRUE, <<>>, 0)

\* content.split('\n').filter(line => line.trim())
nonBlank(lines) == SelectSeq(lines, LAMBDA l : l # 0)

\* stat.size: blank lines weigh nothing in the model
fileSize(f) == Len(nonBlank(f.lines)) * f.recBytes

\* trees: the size of each subtree (0: absent or empty); sessions: the files
\* under projects/; history: history.jsonl
Store(trees, sessions, history) ==
    [trees |-> trees, sessions |-> sessions, history |-> history]

EmptyStore == Store([n \in TreeNames |-> 0], <<>>, NoFile)

RECURSIVE SumSizes(_)
SumSizes(files) ==
    IF files = <<>> THEN 0 ELSE fileSize(Head(files)) + SumSizes(Tail(files))

HasStore(W, dir) == dir.comps \in DOMAIN W.store /\ DirExists(W, dir.comps)

\* getDirSize(join(dir, subdir)): 0 when absent, else the sum of the files
getDirSize(W, dir, subdir) ==
    IF ~HasStore(W, dir) THEN 0
    ELSE IF subdir = "projects" THEN SumSizes(W.store[dir.comps].sessions)
    ELSE W.store[dir.comps].trees[subdir]

\* getDirSize on a tree of entries.  F: absolute path components -> node
\* (file with its size, directory, symbolic link with its target).
\* the directories every path of the model goes through
BaseDirs == {<<>>, <<"home">>, <<"home", "u">>, GlmDir}

nodeAt(F, c) ==
    IF c \in DOMAIN F THEN F[c]
    ELSE IF c \in BaseDirs THEN Dir(0) ELSE None

\* path resolution as statSync and existsSync do it: every symbolic link on
\* the way is followed, the last component included; more than MaxLinkDepth
\* links make it fail (ELOOP), a missing entry too (ENOENT)
RECURSIVE walk(_, _, _, _)
walk(F, cur, rest, fuel) ==
    IF rest = <<>> THEN [ok |-> TRUE, at |-> cur]
    ELSE LET nxt == cur \o <<Head(rest)>>
             n   == nodeAt(F, nxt)
         IN  CASE n.kind = "none" -> [ok |-> FALSE, at |-> nxt]
               [] n.kind = "link" ->
                    IF fuel = 0 THEN [ok |-> FALSE, at |-> nxt]
                    ELSE walk(F, <<>>, n.to.comps \o Tail(rest), fuel - 1)
               [] n.kind = "file" ->
                    IF Tail(rest) = <<>> THEN [ok |-> TRUE, at |-> nxt]
                    ELSE [ok |-> FALSE, at |-> nxt]
               [] OTHER -> walk(F, nxt, Tail(rest), fuel)

\* readdirSync(path): the names of the entries of the directory
readdirSync(F, d) ==
    {c[Len(c)] : c \in {x \in DOMAIN F :
                          /\ Len(x) = Len(d) + 1
                          /\ SubSeq(x, 1, Len(d)) = d
                          /\ F[x].kind # "none"}}

\* the path is measured by lstat: a symbolic link is not followed
RECURSIVE getDirSizeOfTreeNoFollow(_, _)
RECURSIVE sumNoFollow(_, _, _)
getDirSizeOfTreeNoFollow(F, c) ==
    LET n == nodeAt(F, c)
    IN  IF n.kind = "file" THEN n.data
        ELSE IF n.kind = "dir" THEN sumNoFollow(F, c, readdirSync(F, c))
        ELSE 0

sumNoFollow(F, c, names) ==
    IF names = {} THEN 0
    ELSE LET file == CHOOSE x \in names : TRUE
         IN  getDirSizeOfTreeNoFollow(F, c \o <<file>>)
             + sumNoFollow(F, c, names \ {file})

\* getDirSize(path): 0 when existsSync fails; stat.size of what statSync
\* finds when that is no directory; else the sum over readdirSync(path) of
\* getDirSize(join(path, file)).  dirSizeCache holds no entry for a path
\* that is measured for the first time in its process.
RECURSIVE getDirSizeOfTree(_, _)
RECURSIVE sumEntries(_, _, _)
getDirSizeOfTree(F, c) ==
    LET r == walk(F, <<>>, c, MaxLinkDepth)
    IN  IF ~r.ok THEN 0
        ELSE IF nodeAt(F, r.at).kind = "file" THEN nodeAt(F, r.at).data
        ELSE sumEntries(F, c, readdirSync(F, r.at))

sumEntries(F, c, names) ==
    IF names = {} THEN 0
    ELSE LET file == CHOOSE x \in names : TRUE
         IN  getDirSizeOfTree(F, c \o <<file>>)
             + sumEntries(F, c, names \ {file})

\* rmSync(path, {recursive: true, force: true}) of a subtree, in a try block
rmTree(W, dir, subdir) ==
    IF HasStore(W, dir) /\ DirState(W, dir.comps) = "ok"
    THEN [threw |-> FALSE,
          W |-> IF subdir = "projects"
                THEN [W EXCEPT !.store[dir.comps].sessions = <<>>]
                ELSE [W EXCEPT !.store[dir.comps].trees[subdir] = 0]]
    ELSE [threw |-> TRUE, W |-> W]

Max(a, b) == IF a >= b THEN a ELSE b

\* the share of the lines alone, without the minimum
keepCountOfRatio(n, ratio) == (n * ratio) \div 10

\* Math.max(10, Math.floor(lines.length * ratio)), the ratio in tenths
keepCount(n, ratio) == Max(MIN_LINES, (n * ratio) \div 10)

\* lines.slice(-keepCount)
sliceLast(lines, k) == SubSeq(lines, Max(1, Len(lines) - k + 1), Len(lines))

\* truncateSessionFile on the file f of a directory in state ds; what is
\* written is truncatedLines.join('\n') + '\n', whose last line is empty
truncateSessionFile(f, ratio, ds) ==
    LET lines == nonBlank(f.lines)
    IN  IF f.lines = <<>> THEN [truncated |-> FALSE, f |-> f]
        ELSE IF Len(lines) <= MIN_LINES THEN [truncated |-> FALSE, f |-> f]
        ELSE IF ds # "ok" THEN [truncated |-> FALSE, f |-> f]
        ELSE [truncated |-> TRUE,
              f |-> Jsonl(f.at, f.jsonl,
                          sliceLast(lines, keepCount(Len(lines), ratio)) \o <<0>>,
                          f.recBytes)]

RECURSIVE resetLoop(_, _, _, _)
resetLoop(W, dir, i, totalCleaned) ==
    IF i > Len(MEMORY_RESET_TARGETS) THEN [W |-> W, cleaned |-> totalCleaned]
    ELSE LET subdir == MEMORY_RESET_TARGETS[i]
             size   == getDirSize(W, dir, subdir)
             rm     == rmTree(W, dir, subdir)
         IN  IF size > 0 /\ ~rm.threw
             THEN resetLoop(rm.W, dir, i + 1, totalCleaned + size)
             ELSE resetLoop(W, dir, i + 1, totalCleaned)

resetMemory(W, configDir) == resetLoop(W, expandPath(configDir), 1, 0)

\* the subtree goes as soon as it reaches the threshold
overThresholdOrEqual(size, threshold) == size >= threshold

\* if (size > threshold)
overThreshold(size, threshold) == size > threshold

RECURSIVE cleanLoop(_, _, _)
cleanLoop(W, dir, i) ==
    IF i > Len(CLEAN_THRESHOLDS) THEN W
    ELSE
      LET subdir    == CLEAN_THRESHOLDS[i].subdir
          threshold == CLEAN_THRESHOLDS[i].threshold
      IN  IF subdir = "history.jsonl"
          THEN IF HasStore(W, dir)
                  /\ fileSize(W.store[dir.comps].history) > threshold
               THEN cleanLoop(
                      [W EXCEPT !.store[dir.comps].history =
                          truncateSessionFile(@, HISTORY_TRUNCATION_RATIO,
                                              DirState(W, dir.comps)).f],
                      dir, i + 1)
               ELSE cleanLoop(W, dir, i + 1)
          ELSE IF overThreshold(getDirSize(W, dir, subdir), threshold)
               THEN cleanLoop(rmTree(W, dir, subdir).W, dir, i + 1)
               ELSE cleanLoop(W, dir, i + 1)

autoClean(W, configDir) == cleanLoop(W, expandPath(configDir), 1)

\* every file under projects/ whose name ends with ".jsonl"
isSessionFileAnywhere(f) == f.jsonl

\* the files the two readdirSync calls list: the entries of the directories
\* directly under projects/ whose name ends with ".jsonl"
isSessionFile(f) == f.at = "project" /\ f.jsonl

RECURSIVE sessionLoop(_, _, _, _, _)
sessionLoop(W, dir, i, cleaned, savedBytes) ==
    IF i > Len(W.store[dir.comps].sessions)
    THEN [W |-> W, cleaned |-> cleaned, savedBytes |-> savedBytes]
    ELSE
      LET f == W.store[dir.comps].sessions[i]
          t == truncateSessionFile(f, SESSION_TRUNCATION_RATIO,
                                   DirState(W, dir.comps))
      IN  IF isSessionFile(f) /\ fileSize(f) > MAX_SESSION_SIZE /\ t.truncated
          THEN sessionLoop([W EXCEPT !.store[dir.comps].sessions[i] = t.f],
                           dir, i + 1, cleaned + 1,
                           savedBytes + (fileSize(f) - fileSize(t.f)))
          ELSE sessionLoop(W, dir, i + 1, cleaned, savedBytes)

cleanOversizedSessions(W, configDir) ==
    LET dir == expandPath(configDir)
    IN  IF ~HasStore(W, dir) \/ W.store[dir.comps].sessions = <<>>
        THEN [W |-> W, cleaned |-> 0, savedBytes |-> 0]
        ELSE sessionLoop(W, dir, 1, 0, 0)

-----------------------------------------------------------------------------
(* Shared resources and OAuth strip of a launch *)

RECURSIVE sharedLoop(_, _, _)
sharedLoop(W, targetDir, i) ==
    IF i > Len(SHARED_RESOURCES) THEN [threw |-> FALSE, W |-> W]
    ELSE LET resource == SHARED_RESOURCES[i]
             o == ensureSymlink(W, sourceOf(resource),
                                join(targetDir, resource), FALSE)
         IN  IF o.threw THEN [threw |-> TRUE, W |-> o.W]
             ELSE sharedLoop(o.W, targetDir, i + 1)

ensureSharedResources(W, configDir) == sharedLoop(W, expandPath(configDir), 1)

\* if (data.oauthAccount): null is falsy, an account object is truthy
cleanOAuthFromApiKeyProvider(W, configDir) ==
    LET targetFile == docFile(expandPath(configDir))
        data == readFileSync(W, targetFile)
    IN  IF data.st # "ok" THEN W
        ELSE IF data.oauth = "acct"
             THEN writeFileSync(W, targetFile,
                     Doc("ok", data.hasMcp, data.mcp, "absent", data.theme)).W
             ELSE W

-----------------------------------------------------------------------------
(* State store (provider_state table) *)

DAY_MS == 86400000

\* the row is not read
getLastMemoryResetNever(table, providerKey) == 0

\* row?.last_memory_reset ?? 0
getLastMemoryReset(table, providerKey) ==
    IF providerKey \in DOMAIN table THEN table[providerKey] ELSE 0

\* an UPDATE of the row, without the INSERT
setLastMemoryResetUpdateOnly(table, providerKey, timestamp) ==
    [k \in DOMAIN table |-> IF k = providerKey THEN timestamp ELSE table[k]]

\* an INSERT that leaves an existing row as it is
setLastMemoryResetKeepFirst(table, providerKey, timestamp) ==
    [k \in DOMAIN table \cup {providerKey} |->
        IF k \in DOMAIN table THEN table[k] ELSE timestamp]

\* INSERT ... ON CONFLICT(provider_key) DO UPDATE
setLastMemoryReset(table, providerKey, timestamp) ==
    [k \in DOMAIN table \cup {providerKey} |->
        IF k = providerKey THEN timestamp ELSE table[k]]

\* due as soon as the interval is reached
shouldResetMemoryAtInterval(table, providerKey, now) ==
    (now - getLastMemoryReset(table, providerKey)) >= DAY_MS

shouldResetMemory(table, providerKey, now) ==
    (now - getLastMemoryReset(table, providerKey)) > DAY_MS

-----------------------------------------------------------------------------
(* Environment of the child *)

\* an environment entry: unset, or a value given as its words
EnvVal(set, words) == [set |-> set, words |-> words]
Unset == EnvVal(FALSE, <<>>)

CredKeys == {"ANTHROPIC_AUTH_TOKEN", "ANTHROPIC_MODEL"}

\* currentNodeOptions.includes('--max-old-space-size')
hasMaxOldSpace(words) ==
    \E i \in 1..Len(words) :
        words[i] \in {"--max-old-space-size=4096", "--max-old-space-size"}

\* the flag is appended whatever the inherited value holds
nodeOptionsAlwaysAppended(current) ==
    (IF current.set THEN current.words ELSE <<>>) \o <<"--max-old-space-size=8192">>

nodeOptions(current) ==
    LET currentNodeOptions == IF current.set THEN current.words ELSE <<>>
    IN  IF hasMaxOldSpace(currentNodeOptions) THEN currentNodeOptions
        ELSE currentNodeOptions \o <<"--max-old-space-size=8192">>

\* { ...process.env, CLAUDE_CONFIG_DIR, NODE_OPTIONS } and, for an api_key
\* provider, every entry of provider.env that is not undefined
buildEnv(env, provider, configDir) ==
    [NODE_OPTIONS |-> EnvVal(TRUE, nodeOptions(env.NODE_OPTIONS)),
     CLAUDE_CONFIG_DIR |-> configDir,
     creds |-> [k \in CredKeys |->
                  IF provider.type = "api_key" /\ provider.env.has
                     /\ provider.env.vars[k].set
                  THEN provider.env.vars[k] ELSE env.creds[k]]]

-----------------------------------------------------------------------------
(* runClaude, one step at a time *)

\* the invocations the model holds: processes of the CLI that may run at the
\* same time
Invs == {1, 2}

Provider(type, configDir, memoryReset, env) ==
    [type |-> type, configDir |-> configDir, memoryReset |-> memoryReset,
     env |-> env]

NoEnv == [has |-> FALSE, vars |-> [k \in CredKeys |-> Unset]]

\* provider.configDir || '~/.claude'
configDirOf(provider) ==
    expandPath(IF provider.configDir = NoPath THEN CLAUDE ELSE provider.configDir)

\* the sync steps run for every provider
isDefaultConfigNever(provider) == FALSE

isDefaultConfig(provider) == configDirOf(provider) = expandPath(CLAUDE)

NoStatus == [has |-> FALSE, code |-> 0]
Status(c) == [has |-> TRUE, code |-> c]

\* pre, table: the files and the provider_state table when the command began;
\* stamp: the timestamp the invocation gave setLastMemoryReset
Invocation(pc, key, provider, pre, table) ==
    [pc |-> pc, key |-> key, provider |-> provider, steps |-> <<>>,
     spawned |-> 0, child |-> "none", status |-> NoStatus, ret |-> NoStatus,
     exit |-> NoStatus, stamp |-> NoStatus,
     env |-> [NODE_OPTIONS |-> Unset, CLAUDE_CONFIG_DIR |-> NoPath,
              creds |-> [k \in CredKeys |-> Unset]],
     pre |-> pre, table |-> table]

\* the statements of runClaude in the order of the source
stepAfter(pc) ==
    CASE pc = "gate" -> "clean"
      [] pc = "clean" -> "truncate"
      [] pc = "truncate" -> "links"
      [] pc = "links" -> "mcp"
      [] pc = "mcp" -> "oauth"
      [] pc = "oauth" -> "env"
      [] pc = "env" -> "spawn"
      [] pc = "spawn" -> "wait"
      [] OTHER -> "return"

Now == World(fs, dirs, docs, store)

SetWorld(W) ==
    /\ fs' = W.fs
    /\ dirs' = W.dirs
    /\ docs' = W.docs
    /\ store' = W.store

Advance(i, pc, step) ==
    run' = [run EXCEPT ![i].pc = pc,
                       ![i].steps = IF step = "" THEN @ ELSE Append(@, step)]

\* the provider every configuration starts with
DefaultProvider == Provider("oauth", CLAUDE, FALSE, NoEnv)

DEFAULT_CONFIG ==
    [current |-> "anthropic",
     providers |-> [k \in {"anthropic"} |-> DefaultProvider]]

\* config.json. st: "absent", "valid" (it parses and passes ConfigSchema) or
\* "invalid"; current, providers: what its text holds
ConfigFile(st, cfg) ==
    [st |-> st, current |-> cfg.current, providers |-> cfg.providers]

NoConfigFile == ConfigFile("absent", [current |-> "", providers |-> <<>>])

\* readConfig: the default configuration when the file is absent, does not
\* parse or fails the schema
readConfig(file) ==
    IF file.st = "valid"
    THEN [current |-> file.current, providers |-> file.providers]
    ELSE DEFAULT_CONFIG

\* writeFileSync(CONFIG_PATH, JSON.stringify(config, null, 2))
writeConfig(cfg) == ConfigFile("valid", cfg)

\* the null getProvider answers for a key the store does not hold
NullProvider == Provider("null", NoPath, FALSE, NoEnv)

\* names every object answers through its prototype
InheritedKeys == {"constructor"}

\* what the prototype holds under such a name: a function, which is truthy
\* and has no configDir, memoryReset, type or env
ObjectFunction == Provider("function", NoPath, FALSE, NoEnv)

\* config.providers[name]: a property lookup on a plain object, NullProvider
\* standing for undefined
lookup(providers, name) ==
    IF name \in DOMAIN providers THEN providers[name]
    ELSE IF name \in InheritedKeys THEN ObjectFunction
    ELSE NullProvider

\* config.providers[name] || null
getProvider(file, name) == lookup(readConfig(file).providers, name)

\* true when the provider was found and made current
setCurrentProviderOk(file, name) ==
    lookup(readConfig(file).providers, name) # NullProvider

\* the file after setCurrentProvider(name)
setCurrentProvider(file, name) ==
    LET cfg == readConfig(file) IN
    IF lookup(cfg.providers, name) = NullProvider THEN file
    ELSE writeConfig([cfg EXCEPT !.current = name])

\* ProviderSchema.safeParse(provider).success: type is one of the two kinds
\* and configDir is not the empty string
validProvider(provider) ==
    provider.type \in {"oauth", "api_key"} /\ provider.configDir # NoPath

StoreOutcome(ok, file) == [ok |-> ok, file |-> file]

\* addProvider(key, provider): success and the file afterwards
addProvider(file, key, provider) ==
    LET cfg == readConfig(file) IN
    IF lookup(cfg.providers, key) # NullProvider THEN StoreOutcome(FALSE, file)
    ELSE IF ~validProvider(provider) THEN StoreOutcome(FALSE, file)
    ELSE StoreOutcome(TRUE,
                 writeConfig([cfg EXCEPT !.providers =
                     [k \in DOMAIN cfg.providers \cup {key} |->
                         IF k = key THEN provider ELSE cfg.providers[k]]]))

\* delete config.providers[key]: own keys only
deleteKey(providers, key) ==
    [k \in DOMAIN providers \ {key} |-> providers[k]]

\* removeProvider(key): the outcomes it may have. The provider that becomes
\* current when the current one is removed is the first other key of the
\* file, whose order the model does not hold: any other key
removeProvider(file, key) ==
    LET cfg == readConfig(file) IN
    IF lookup(cfg.providers, key) = NullProvider THEN {StoreOutcome(FALSE, file)}
    ELSE IF Cardinality(DOMAIN cfg.providers) = 1 THEN {StoreOutcome(FALSE, file)}
    ELSE {StoreOutcome(TRUE, writeConfig([current |-> cur,
                                     providers |-> deleteKey(cfg.providers, key)])) :
            cur \in IF cfg.current = key
                    THEN DOMAIN cfg.providers \ {key}
                    ELSE {cfg.current}}

\* ccs run <provider>: an unknown provider ends the process with 1; a known
\* one becomes the current provider and runClaude is called with it
CmdRun(i) ==
    /\ run[i].pc = "cli"
    /\ IF getProvider(config, run[i].key) = NullProvider
       THEN /\ run' = [run EXCEPT ![i].pc = "exited", ![i].exit = Status(1)]
            /\ UNCHANGED config
       ELSE /\ config' = setCurrentProvider(config, run[i].key)
            /\ run' = [run EXCEPT ![i].pc = "gate",
                                  ![i].provider = getProvider(config, run[i].key)]
    /\ UNCHANGED <<fs, dirs, docs, store, last, clock, provider_state, penv, resetLog>>

\* process.exit(exitCode)
CmdExit(i) ==
    /\ run[i].pc = "returned"
    /\ run' = [run EXCEPT ![i].pc = "exited", ![i].exit = run[i].ret]
    /\ UNCHANGED <<fs, dirs, docs, store, last, clock, provider_state, penv, resetLog, config>>

\* an exception that leaves runClaude is caught nowhere: the process dies
\* with the status of an uncaught exception
CmdUncaught(i) ==
    /\ run[i].pc = "thrown"
    /\ run' = [run EXCEPT ![i].pc = "crashed", ![i].exit = Status(1)]
    /\ UNCHANGED <<fs, dirs, docs, store, last, clock, provider_state, penv, resetLog, config>>

\* if (provider.memoryReset && shouldResetMemory(providerKey))
StepGate(i) ==
    /\ run[i].pc = "gate"
    /\ IF run[i].provider.memoryReset
          /\ shouldResetMemory(provider_state, run[i].key, clock)
       THEN Advance(i, "resetMemory", "")
       ELSE Advance(i, stepAfter("gate"), "")
    /\ UNCHANGED <<fs, dirs, docs, store, last, clock, provider_state, penv, resetLog, config>>

StepResetMemory(i) ==
    /\ run[i].pc = "resetMemory"
    /\ SetWorld(resetMemory(Now, configDirOf(run[i].provider)).W)
    /\ Advance(i, "setLastMemoryReset", "")
    /\ resetLog' = Append(resetLog, [key |-> run[i].key, at |-> clock, by |-> i])
    /\ UNCHANGED <<last, clock, provider_state, penv, config>>

StepSetLastMemoryReset(i) ==
    /\ run[i].pc = "setLastMemoryReset"
    /\ provider_state' = setLastMemoryReset(provider_state, run[i].key, clock)
    /\ run' = [run EXCEPT ![i].pc = stepAfter("gate"),
                          ![i].steps = Append(@, "reset"),
                          ![i].stamp = Status(clock)]
    /\ UNCHANGED <<fs, dirs, docs, store, last, clock, penv, resetLog, config>>

StepAutoClean(i) ==
    /\ run[i].pc = "clean"
    /\ SetWorld(autoClean(Now, configDirOf(run[i].provider)))
    /\ Advance(i, stepAfter("clean"), "clean")
    /\ UNCHANGED <<last, clock, provider_state, penv, resetLog, config>>

StepSessions(i) ==
    /\ run[i].pc = "truncate"
    /\ IF run[i].provider.memoryReset
       THEN /\ SetWorld(cleanOversizedSessions(Now, configDirOf(run[i].provider)).W)
            /\ Advance(i, stepAfter("truncate"), "truncate")
       ELSE /\ UNCHANGED <<fs, dirs, docs, store>>
            /\ Advance(i, stepAfter("truncate"), "")
    /\ UNCHANGED <<last, clock, provider_state, penv, resetLog, config>>

\* ensureSharedResources; an exception of mkdirSync leaves runClaude
StepLinks(i) ==
    /\ run[i].pc = "links"
    /\ IF ~isDefaultConfig(run[i].provider)
       THEN \E o \in {ensureSharedResources(Now, configDirOf(run[i].provider))} :
              /\ SetWorld(o.W)
              /\ IF o.threw THEN Advance(i, "thrown", "")
                 ELSE Advance(i, stepAfter("links"), "links")
       ELSE /\ UNCHANGED <<fs, dirs, docs, store>>
            /\ Advance(i, stepAfter("links"), "")
    /\ UNCHANGED <<last, clock, provider_state, penv, resetLog, config>>

StepMcp(i) ==
    /\ run[i].pc = "mcp"
    /\ IF ~isDefaultConfig(run[i].provider)
       THEN /\ SetWorld(syncMcpServers(Now, configDirOf(run[i].provider)).W)
            /\ Advance(i, stepAfter("mcp"), "mcp")
       ELSE /\ UNCHANGED <<fs, dirs, docs, store>>
            /\ Advance(i, stepAfter("mcp"), "")
    /\ UNCHANGED <<last, clock, provider_state, penv, resetLog, config>>

StepOAuth(i) ==
    /\ run[i].pc = "oauth"
    /\ IF ~isDefaultConfig(run[i].provider) /\ run[i].provider.type = "api_key"
       THEN /\ SetWorld(cleanOAuthFromApiKeyProvider(Now, configDirOf(run[i].provider)))
            /\ Advance(i, stepAfter("oauth"), "oauth")
       ELSE /\ UNCHANGED <<fs, dirs, docs, store>>
            /\ Advance(i, stepAfter("oauth"), "")
    /\ UNCHANGED <<last, clock, provider_state, penv, resetLog, config>>

StepEnv(i) ==
    /\ run[i].pc = "env"
    /\ run' = [run EXCEPT
                 ![i].pc = stepAfter("env"),
                 ![i].steps = Append(@, "env"),
                 ![i].env = buildEnv(penv, run[i].provider,
                                     configDirOf(run[i].provider))]
    /\ UNCHANGED <<fs, dirs, docs, store, last, clock, provider_state, penv, resetLog, config>>

\* spawnSync('claude', args, options): the child starts, or cannot be
\* started (result.status is then null)
StepSpawn(i) ==
    /\ run[i].pc = "spawn"
    /\ \E started \in BOOLEAN :
         run' = [run EXCEPT
                   ![i].pc = IF started THEN stepAfter("spawn") ELSE "return",
                   ![i].steps = Append(@, "spawn"),
                   ![i].spawned = @ + 1,
                   ![i].child = IF started THEN "running" ELSE "failed"]
    /\ UNCHANGED <<fs, dirs, docs, store, last, clock, provider_state, penv, resetLog, config>>

\* the child exits with a status, or is killed by a signal (status null)
ChildExit(i) ==
    /\ run[i].pc = "wait"
    /\ \E st \in {Status(0), Status(1), Status(2), NoStatus} :
         run' = [run EXCEPT ![i].pc = stepAfter("wait"),
                            ![i].child = "exited",
                            ![i].status = st]
    /\ UNCHANGED <<fs, dirs, docs, store, last, clock, provider_state, penv, resetLog, config>>

\* result.status || 1: a status of 0 is falsy too
statusOrOneFalsy(status) ==
    IF status.has /\ status.code # 0 THEN status ELSE Status(1)

\* result.status ?? 1
statusOrOne(status) == IF status.has THEN status ELSE Status(1)

\* return result.status ?? 1
StepReturn(i) ==
    /\ run[i].pc = "return"
    /\ run' = [run EXCEPT ![i].pc = "returned",
                          ![i].ret = statusOrOne(run[i].status)]
    /\ UNCHANGED <<fs, dirs, docs, store, last, clock, provider_state, penv, resetLog, config>>

-----------------------------------------------------------------------------
(* The calls the model makes, and what it remembers of the last one *)


Call(op, cfg, res, force) == [op |-> op, cfg |-> cfg, res |-> res, force |-> force]

NoCall == Call("none", NoPath, "", FALSE)

\* call: the call; rep: it repeats the call made just before it; ret, results:
\* what it returned; pre: the state it started from; prev, prevResults: the
\* call made just before it and its results
Record(call, rep, ret, results, pre, prev, prevResults) ==
    [call |-> call, rep |-> rep, ret |-> ret, results |-> results,
     pre |-> pre, prev |-> prev, prevResults |-> prevResults]

\* only syncSharedResources calls are remembered as the call before
Completes(call, ret, results, W) ==
    /\ fs' = W.fs
    /\ dirs' = W.dirs
    /\ docs' = W.docs
    /\ store' = W.store
    /\ UNCHANGED <<clock, provider_state, penv, resetLog, config, run>>
    /\ last' = Record(call, last.call = call, ret, results, Now,
                      IF call.op = "syncSharedResources" THEN last.call ELSE NoCall,
                      IF call.op = "syncSharedResources" THEN last.results ELSE <<>>)

BoolRet(out) == IF out.threw THEN "throw" ELSE IF out.ret THEN "true" ELSE "false"

CallEnsureSymlink(cfg, resource, force) ==
    \E out \in {ensureSymlink(Now, sourceOf(resource),
                              join(expandPath(cfg), resource), force)} :
        Completes(Call("ensureSymlink", cfg, resource, force),
                  BoolRet(out), <<>>, out.W)

CallSyncSharedResources(cfg, force) ==
    \E out \in {syncSharedResources(Now, cfg, force)} :
        Completes(Call("syncSharedResources", cfg, "", force),
                  out.ret, out.results, out.W)

CallSyncMcpServers(cfg) ==
    \E out \in {syncMcpServers(Now, cfg)} :
        Completes(Call("syncMcpServers", cfg, "", FALSE), out.ret, <<>>, out.W)

CallSyncMcpServersForSync(cfg, force) ==
    \E out \in {syncMcpServersForSync(Now, cfg, force)} :
        Completes(Call("syncMcpServersForSync", cfg, "", force),
                  out.ret, <<>>, out.W)

\* calls of the cleanup functions on a config directory

\* the ratio a caller of truncateSessionFile passes: the default, or 0.3
RatioOf(caller) ==
    IF caller = "history" THEN HISTORY_TRUNCATION_RATIO
    ELSE SESSION_TRUNCATION_RATIO

CallAutoClean(cfg) ==
    Completes(Call("autoClean", cfg, "", FALSE), "void", <<>>,
              autoClean(Now, cfg))

CallCleanOversizedSessions(cfg) ==
    \E out \in {cleanOversizedSessions(Now, cfg)} :
        Completes(Call("cleanOversizedSessions", cfg, "", FALSE), "report",
                  <<out.cleaned, out.savedBytes>>, out.W)

\* truncateSessionFile(join(dir, 'history.jsonl'), ratio)
CallTruncateSessionFile(cfg, caller) ==
    LET dir == expandPath(cfg).comps
        out == truncateSessionFile(store[dir].history, RatioOf(caller),
                                   DirState(Now, dir))
    IN  Completes(Call("truncateSessionFile", cfg, caller, FALSE),
                  IF out.truncated THEN "true" ELSE "false", <<>>,
                  [Now EXCEPT !.store[dir].history = out.f])

\* getDirSize(path) on the tree of entries
CallGetDirSize(path) ==
    Completes(Call("getDirSize", path, "", FALSE), "size",
              <<getDirSizeOfTree(fs, path.comps)>>, Now)

\* calls of the state store, and the passing of time between them
GateKeys == {"glm", "kimi"}

GateDone(call, ret) ==
    /\ last' = Record(call, last.call = call, ret, <<>>, Now, last.call, <<>>)
    /\ UNCHANGED <<fs, dirs, docs, store, penv, resetLog, config, run>>

CallShouldResetMemory(key) ==
    /\ GateDone(Call("shouldResetMemory", NoPath, key, FALSE),
                IF shouldResetMemory(provider_state, key, clock)
                THEN "true" ELSE "false")
    /\ UNCHANGED <<clock, provider_state>>

CallSetLastMemoryReset(key) ==
    /\ provider_state' = setLastMemoryReset(provider_state, key, clock)
    /\ GateDone(Call("setLastMemoryReset", NoPath, key, FALSE), "void")
    /\ UNCHANGED clock

\* the times the model looks at: around the whole days
NearDay(t) == (t % DAY_MS) <= MaxSkew \/ (t % DAY_MS) >= DAY_MS - MaxSkew

\* Date.now() moves on by a millisecond, by a day less a millisecond, by a day
Tick(d) ==
    /\ clock + d <= 3 * DAY_MS + MaxDays * DAY_MS + MaxSkew
    /\ NearDay(clock + d)
    /\ clock' = clock + d
    /\ GateDone(Call("tick", NoPath, "", FALSE), "void")
    /\ UNCHANGED provider_state

-----------------------------------------------------------------------------
(* Initial states *)

Varied == {SHARED_RESOURCES[i] : i \in 1..MaxVaried}

FileResources == {"settings.json", "CLAUDE.md", "AGENTS.md", ".ccsignore"}

SourceNode(r) == IF r \in FileResources THEN File(2) ELSE Dir(2)

\* where a stale link of the provider directory points
OldPath(r) == Path(FALSE, <<"home", "u", "old", r>>, FALSE)

TargetNodes(r) ==
    {None, File(1), Dir(1), Link(sourceOf(r)), Link(OldPath(r))}

Locs ==
    {ClaudeDir \o <<r>> : r \in Resources} \cup
    {GlmDir \o <<r>> : r \in Resources} \cup
    {homedir.comps \o <<".ccsignore">>}

\* sv: which varied sources exist; tv: the provider's entry of each varied
\* resource; others: whether the remaining sources exist; cc: ~/.ccsignore
InitFs(sv, tv, others, cc) ==
    [c \in Locs |->
        LET r == c[Len(c)]
        IN  IF c = homedir.comps \o <<".ccsignore">>
            THEN (IF cc THEN File(2) ELSE None)
            ELSE IF Parent(c) = ClaudeDir
            THEN (IF r = ".ccsignore" THEN None
                  ELSE IF r \in Varied
                  THEN (IF sv[r] THEN SourceNode(r) ELSE None)
                  ELSE (IF others THEN SourceNode(r) ELSE None))
            ELSE (IF r \in Varied THEN tv[r] ELSE None)]

Values == {1, 2}
ServerNames == {"a", "b", "c"}
\* the servers the source document may define
SourceNames == {"a", "b"}

Maps ==
    {m \in UNION {[1..n -> [k : ServerNames, v : Values]] : n \in 0..MaxServers} :
        \A i, j \in 1..Len(m) : m[i].k = m[j].k => i = j}

SourceDoc1 == Doc("ok", TRUE, <<Entry("a", 1), Entry("b", 2)>>, "acct", "dark")

InitLast == last = Record(NoCall, FALSE, "none", <<>>, Now, NoCall, <<>>)

\* the clock of the model: three days after the epoch
T0 == 3 * DAY_MS

CleanEnv == [NODE_OPTIONS |-> Unset, CLAUDE_CONFIG_DIR |-> NoPath,
             creds |-> [k \in CredKeys |-> Unset]]

Off == Invocation("off", "", DefaultProvider,
                  World(<<>>, <<>>, <<>>, <<>>), <<>>)

\* no launch is under way
InitIdle ==
    /\ store = [d \in {ClaudeDir, GlmDir} |-> EmptyStore]
    /\ clock = T0
    /\ provider_state = <<>>
    /\ penv = CleanEnv
    /\ config = ConfigFile("valid", DEFAULT_CONFIG)
    /\ run = [i \in Invs |-> Off]
    /\ resetLog = <<>>

InitLink ==
    /\ \E sv \in [Varied -> BOOLEAN], others \in BOOLEAN, cc \in {TRUE},
          ds \in DirStates :
         \E tv \in [Varied -> UNION {TargetNodes(r) : r \in Varied}] :
            /\ \A r \in Varied : tv[r] \in TargetNodes(r)
            /\ ds \in {"missing", "blocked"} => \A r \in Varied : tv[r] = None
            /\ fs = InitFs(sv, tv, others, cc)
            /\ dirs = [d \in {ClaudeDir, GlmDir} |->
                          IF d = ClaudeDir THEN "ok" ELSE ds]
    /\ docs \in {[d \in {ClaudeDir, GlmDir} |->
                     IF d = ClaudeDir THEN sd ELSE NoDoc] :
                 sd \in {SourceDoc1}}
    /\ InitIdle
    /\ InitLast

InitMcp ==
    /\ fs = InitFs([r \in Varied |-> TRUE], [r \in Varied |-> None], TRUE, TRUE)
    /\ \E ds \in {"ok", "readonly", "missing"} :
        /\ dirs = [d \in {ClaudeDir, GlmDir} |->
                      IF d = ClaudeDir THEN "ok" ELSE ds]
        /\ \E sd \in {NoDoc, BadDoc} \cup
                     {Doc("ok", h, m, "absent", "absent") :
                         h \in BOOLEAN,
                         m \in {x \in Maps : Keys(x) \subseteq SourceNames}},
              td \in {NoDoc, BadDoc, CutDoc} \cup
                     {Doc("ok", h, m, o, t) :
                         h \in BOOLEAN, m \in Maps, o \in {"absent", "acct"},
                         t \in {"absent", "dark"}} :
            /\ ~sd.hasMcp => sd.mcp = <<>>
            /\ ~td.hasMcp => td.mcp = <<>>
            /\ ds = "missing" => td = NoDoc
            /\ docs = [d \in {ClaudeDir, GlmDir} |->
                          IF d = ClaudeDir THEN sd ELSE td]
    /\ InitIdle
    /\ InitLast

MB == 1024 * 1024

\* the lines of a file of n records, each ended by a newline
Lines(n) == [k \in 1..n |-> k] \o <<0>>

\* a file of n records with, when blanks is set, an empty line after the
\* first record and two at the end
FileLines(n, blanks) ==
    IF blanks /\ n >= 1
    THEN <<1, 0>> \o [k \in 1..(n - 1) |-> k + 1] \o <<0, 0>>
    ELSE Lines(n)

\* session files of every kind: over, at and under MAX_SESSION_SIZE, few
\* but heavy records, another suffix, other places under projects/
MixedSessions ==
    << Jsonl("project", TRUE, Lines(20), MB),
       Jsonl("project", FALSE, Lines(20), MB),
       Jsonl("project", TRUE, Lines(8), 2 * MB),
       Jsonl("top", TRUE, Lines(20), MB),
       Jsonl("nested", TRUE, Lines(20), MB),
       Jsonl("project", TRUE, Lines(10), MB),
       Jsonl("project", TRUE, Lines(12), MB) >>

\* a directory that has been used: debug over its threshold, shell-snapshots
\* exactly at it, a session file and history.jsonl over theirs
UsedStore ==
    Store([n \in TreeNames |->
              CASE n = "debug" -> CLEAN_DEBUG + 1
                [] n = "shell-snapshots" -> CLEAN_SHELL_SNAPSHOTS
                [] n = "file-history" -> 5
                [] OTHER -> 0],
          MixedSessions,
          Jsonl("root", TRUE, Lines(40), 65536))

ApiEnv ==
    [has |-> TRUE,
     vars |-> [k \in CredKeys |->
                 IF k = "ANTHROPIC_AUTH_TOKEN" THEN EnvVal(TRUE, <<"tok">>)
                 ELSE Unset]]

\* a provider that has memoryReset
DailyProvider == Provider("api_key", GLM, TRUE, ApiEnv)

\* the providers a launch is made with, under their keys
RunProviders ==
    {[key |-> "anthropic", p |-> Provider("oauth", CLAUDE, mr, NoEnv)] : mr \in BOOLEAN}
    \cup {[key |-> "bare", p |-> Provider("oauth", NoPath, mr, NoEnv)] : mr \in {FALSE}}
    \cup {[key |-> "direct", p |-> Provider("api_key", CLAUDE, mr, ApiEnv)] : mr \in {FALSE}}
    \cup {[key |-> "glm", p |-> Provider("api_key", GLM, mr, ApiEnv)] : mr \in BOOLEAN}
    \cup {[key |-> "alias", p |-> Provider("api_key", CLAUDE_SLASH, mr, ApiEnv)] : mr \in {FALSE}}
    \cup {[key |-> "team", p |-> Provider("oauth", GLM, mr, ApiEnv)] : mr \in {FALSE}}

\* a key the provider store does not hold
UnknownKey == "nope"

\* the commands the model gives: ccs run <key>, for the provider the store
\* holds under the key, or for a key it does not hold
RunCommands ==
    {[key |-> pr.key, known |-> TRUE, p |-> pr.p] : pr \in RunProviders}
    \cup {[key |-> UnknownKey, known |-> FALSE,
           p |-> Provider("api_key", GLM, TRUE, ApiEnv)]}
    \cup {[key |-> k, known |-> FALSE, p |-> ObjectFunction] :
            k \in InheritedKeys}

\* runClaude has just been called with a provider of the configuration
InitRun ==
    /\ \E sv \in [Varied -> BOOLEAN], ds \in DirStates :
         \E tv \in [Varied -> UNION {TargetNodes(r) : r \in Varied}] :
            /\ \A r \in Varied : tv[r] \in {None, File(1)}
            /\ ds \in {"missing", "blocked"} => \A r \in Varied : tv[r] = None
            /\ fs = InitFs(sv, tv, TRUE, TRUE)
            /\ dirs = [d \in {ClaudeDir, GlmDir} |->
                          IF d = ClaudeDir THEN "ok" ELSE ds]
            /\ \E td \in {NoDoc,
                           Doc("ok", TRUE, <<Entry("c", 1)>>, "acct", "dark"),
                           Doc("ok", TRUE, <<Entry("c", 1)>>, "null", "dark")} :
                 /\ ds # "ok" => td = NoDoc
                 /\ docs = [d \in {ClaudeDir, GlmDir} |->
                               IF d = ClaudeDir THEN SourceDoc1 ELSE td]
            /\ \E used \in BOOLEAN, pr \in RunCommands :
                 /\ store = [d \in {ClaudeDir, GlmDir} |->
                                IF used /\ d = configDirOf(pr.p).comps
                                   /\ dirs[d] \in {"ok", "readonly"}
                                THEN UsedStore ELSE EmptyStore]
                 /\ config = ConfigFile("valid",
                      [current |-> "anthropic",
                       providers |->
                         [k \in {"anthropic"} \cup
                                (IF pr.known THEN {pr.key} ELSE {}) |->
                             IF k = pr.key THEN pr.p ELSE DefaultProvider]])
                 /\ provider_state \in
                       {<<>>,
                        [k \in {pr.key} |-> T0 - DAY_MS],
                        [k \in {pr.key} |-> T0 - DAY_MS - 1]}
                 /\ run = [i \in Invs |->
                              IF i = 1
                              THEN Invocation("cli", pr.key, DefaultProvider,
                                              World(fs, dirs, docs, store),
                                              provider_state)
                              ELSE Off]
    /\ clock = T0
    /\ resetLog = <<>>
    /\ penv \in {[CleanEnv EXCEPT !.NODE_OPTIONS = o, !.creds = c] :
                  o \in {Unset, EnvVal(TRUE, <<>>),
                         EnvVal(TRUE, <<"--max-old-space-size=4096">>),
                         EnvVal(TRUE, <<"--inspect">>)},
                  c \in {[k \in CredKeys |-> Unset],
                         [k \in CredKeys |->
                            IF k = "ANTHROPIC_MODEL" THEN EnvVal(TRUE, <<"m">>)
                            ELSE EnvVal(TRUE, <<"old">>)]}}
    /\ InitLast

-----------------------------------------------------------------------------
(* Specifications *)

NextLink ==
    \E cfg \in {GLM, CLAUDE_SLASH}, r \in Varied \cup {".ccsignore"},
       force \in BOOLEAN :
        CallEnsureSymlink(cfg, r, force)

SpecLink == InitLink /\ [][NextLink]_vars

NextSync ==
    \E cfg \in {CLAUDE, CLAUDE_SLASH, GLM}, force \in BOOLEAN :
        CallSyncSharedResources(cfg, force)

SpecSync == InitLink /\ [][NextSync]_vars

NextMcp ==
    \E cfg \in {CLAUDE, GLM} :
        \/ CallSyncMcpServers(cfg)
        \/ \E force \in BOOLEAN : CallSyncMcpServersForSync(cfg, force)

SpecMcp == InitMcp /\ [][NextMcp]_vars

InitGate ==
    /\ fs = InitFs([r \in Varied |-> TRUE], [r \in Varied |-> None], TRUE, TRUE)
    /\ dirs = [d \in {ClaudeDir, GlmDir} |-> "ok"]
    /\ docs = [d \in {ClaudeDir, GlmDir} |-> NoDoc]
    /\ InitIdle
    /\ InitLast

NextGate ==
    \/ \E key \in GateKeys : CallShouldResetMemory(key)
    \/ \E key \in GateKeys : CallSetLastMemoryReset(key)
    \/ \E d \in {1, DAY_MS - 1, DAY_MS} : Tick(d)

SpecGate == InitGate /\ [][NextGate]_vars

\* calls of the provider store
StoreDone(call, ret, file) ==
    /\ last' = Record(call, last.call = call, ret, <<>>, Now, last.call, <<>>)
    /\ config' = file
    /\ UNCHANGED <<fs, dirs, docs, store, clock, provider_state, penv, resetLog,
                   run>>

CallSetCurrentProvider(name) ==
    StoreDone(Call("setCurrentProvider", NoPath, name, FALSE),
              IF setCurrentProviderOk(config, name) THEN "true" ELSE "false",
              setCurrentProvider(config, name))

CallAddProvider(key, provider) ==
    LET out == addProvider(config, key, provider) IN
    StoreDone(Call("addProvider", provider.configDir, key, FALSE),
              IF out.ok THEN "success" ELSE "failure", out.file)

CallRemoveProvider(key) ==
    \E out \in removeProvider(config, key) :
        StoreDone(Call("removeProvider", NoPath, key, FALSE),
                  IF out.ok THEN "success" ELSE "failure", out.file)

\* the keys the store is called with
StoreKeys == {"anthropic", "glm", "kimi"} \cup InheritedKeys

\* the providers addProvider is given: one that passes ProviderSchema and one
\* with an empty configDir
NewProviders == {DailyProvider, Provider("api_key", NoPath, FALSE, NoEnv)}

\* what the user has in a config.json: three providers, the second current
UserConfig ==
    [current |-> "glm",
     providers |-> [k \in {"anthropic", "glm", "kimi"} |->
                      IF k = "anthropic" THEN DefaultProvider ELSE DailyProvider]]

\* config.json as a command may find it: absent, valid, or holding the
\* user's providers in a text that does not parse or fails the schema
InitStore ==
    /\ fs = InitFs([r \in Varied |-> TRUE], [r \in Varied |-> None], TRUE, TRUE)
    /\ dirs = [d \in {ClaudeDir, GlmDir} |-> "ok"]
    /\ docs = [d \in {ClaudeDir, GlmDir} |-> NoDoc]
    /\ store = [d \in {ClaudeDir, GlmDir} |-> EmptyStore]
    /\ clock = T0
    /\ provider_state = <<>>
    /\ penv = CleanEnv
    /\ config \in {NoConfigFile,
                   ConfigFile("valid", DEFAULT_CONFIG),
                   ConfigFile("valid", UserConfig),
                   ConfigFile("invalid", UserConfig)}
    /\ run = [i \in Invs |-> Off]
    /\ resetLog = <<>>
    /\ InitLast

NextStore ==
    \/ \E name \in StoreKeys : CallSetCurrentProvider(name)
    \/ \E key \in StoreKeys, provider \in NewProviders :
          CallAddProvider(key, provider)
    \/ \E key \in StoreKeys : CallRemoveProvider(key)

SpecStore == InitStore /\ [][NextStore]_vars

\* config directories as the cleanup functions may find them
InitClean ==
    /\ fs = InitFs([r \in Varied |-> TRUE], [r \in Varied |-> None], TRUE, TRUE)
    /\ dirs \in {[d \in {ClaudeDir, GlmDir} |->
                     IF d = ClaudeDir THEN "ok" ELSE ds] : ds \in {"ok", "readonly"}}
    /\ docs = [d \in {ClaudeDir, GlmDir} |-> NoDoc]
    /\ \E n \in 0..MaxRecords, blanks \in BOOLEAN,
          shell \in {CLEAN_SHELL_SNAPSHOTS, CLEAN_SHELL_SNAPSHOTS + 1},
          debug \in {CLEAN_DEBUG, CLEAN_DEBUG + 1},
          sess \in {<<>>, MixedSessions} :
         store = [d \in {ClaudeDir, GlmDir} |->
                    IF d = ClaudeDir THEN EmptyStore
                    ELSE Store([t \in TreeNames |->
                                  CASE t = "shell-snapshots" -> shell
                                    [] t = "debug" -> debug
                                    [] t = "file-history" -> 5
                                    [] OTHER -> 0],
                               sess,
                               Jsonl("root", TRUE, FileLines(n, blanks), 65536))]
    /\ clock = T0
    /\ provider_state = <<>>
    /\ penv = CleanEnv
    /\ config = ConfigFile("valid", DEFAULT_CONFIG)
    /\ run = [i \in Invs |-> Off]
    /\ resetLog = <<>>
    /\ InitLast

NextClean ==
    \/ CallAutoClean(GLM)
    \/ CallCleanOversizedSessions(GLM)
    \/ \E caller \in {"session", "history"} : CallTruncateSessionFile(GLM, caller)

SpecClean == InitClean /\ [][NextClean]_vars

\* the subtree that is measured, and what lies outside it
DebugDir == GlmDir \o <<"debug">>
OtherDir == <<"home", "u", "other">>
BigFile  == <<"home", "u", "big">>

AbsPath(c) == Path(FALSE, c, FALSE)

TreePaths ==
    {DebugDir, DebugDir \o <<"f">>, DebugDir \o <<"d">>,
     DebugDir \o <<"d", "g">>, DebugDir \o <<"d", "l">>,
     OtherDir, OtherDir \o <<"x">>, BigFile}

\* debug/ with a file or link f, a directory or link d and, in a real d, a
\* file g and a link l that may lead back up, to itself, or outside
InitSize ==
    /\ \E f \in {None, File(1), File(3), Link(AbsPath(BigFile)),
                   Link(AbsPath(DebugDir \o <<"f">>)),
                   Link(AbsPath(DebugDir \o <<"gone">>))},
          d \in {None, Dir(0), Link(AbsPath(OtherDir))},
          g \in {None, File(2)},
          l \in {None, Link(AbsPath(DebugDir)), Link(AbsPath(DebugDir \o <<"d">>)),
                   Link(AbsPath(DebugDir \o <<"d", "l">>)),
                   Link(AbsPath(DebugDir \o <<"f">>)), Link(AbsPath(BigFile))} :
         /\ d.kind # "dir" => (g = None /\ l = None)
         /\ fs = [c \in TreePaths |->
                    CASE c = DebugDir -> Dir(0)
                      [] c = DebugDir \o <<"f">> -> f
                      [] c = DebugDir \o <<"d">> -> d
                      [] c = DebugDir \o <<"d", "g">> -> g
                      [] c = DebugDir \o <<"d", "l">> -> l
                      [] c = OtherDir -> Dir(0)
                      [] c = OtherDir \o <<"x">> -> File(5)
                      [] OTHER -> File(7)]
    /\ dirs = [d \in {ClaudeDir, GlmDir} |-> "ok"]
    /\ docs = [d \in {ClaudeDir, GlmDir} |-> NoDoc]
    /\ InitIdle
    /\ InitLast

NextSize ==
    \E c \in {DebugDir, DebugDir \o <<"d">>, DebugDir \o <<"f">>,
               DebugDir \o <<"none">>} :
        CallGetDirSize(AbsPath(c))

SpecSize == InitSize /\ [][NextSize]_vars

\* launches of one provider that has memoryReset, one after another

InitDaily ==
    /\ fs = InitFs([r \in Varied |-> TRUE], [r \in Varied |-> None], TRUE, TRUE)
    /\ dirs \in {[d \in {ClaudeDir, GlmDir} |->
                     IF d = ClaudeDir THEN "ok" ELSE ds] : ds \in {"ok", "blocked"}}
    /\ docs = [d \in {ClaudeDir, GlmDir} |->
                  IF d = ClaudeDir THEN SourceDoc1 ELSE NoDoc]
    /\ store = [d \in {ClaudeDir, GlmDir} |->
                  IF d = GlmDir /\ dirs[d] = "ok" THEN UsedStore ELSE EmptyStore]
    /\ clock = T0
    /\ provider_state \in {<<>>, [k \in {"glm"} |-> T0 - DAY_MS]}
    /\ penv = CleanEnv
    /\ config = ConfigFile("valid",
                     [current |-> "anthropic",
                      providers |-> [k \in {"anthropic", "glm"} |->
                                       IF k = "glm" THEN DailyProvider
                                       ELSE DefaultProvider]])
    /\ run = [i \in Invs |->
                 IF i = 1
                 THEN Invocation("cli", "glm", DefaultProvider,
                                 World(fs, dirs, docs, store), provider_state)
                 ELSE Off]
    /\ resetLog = <<>>
    /\ InitLast

\* the assistant, while it runs, writes its sessions and caches again
ChildWrites(i) ==
    /\ run[i].pc = "wait"
    /\ store' = [store EXCEPT ![configDirOf(run[i].provider).comps] = UsedStore]
    /\ UNCHANGED <<fs, dirs, docs, last, clock, provider_state, penv, config,
                   run, resetLog>>

\* the process is over; the same command is given again
Relaunch(i) ==
    /\ run[i].pc \in {"exited", "crashed"}
    /\ run' = [run EXCEPT ![i] =
                 Invocation("cli", run[i].key, DefaultProvider,
                            World(fs, dirs, docs, store), provider_state)]
    /\ UNCHANGED <<fs, dirs, docs, store, last, clock, provider_state, penv,
                   config, resetLog>>

NextRun ==
    \E i \in Invs :
        \/ CmdRun(i)
        \/ CmdExit(i)
        \/ CmdUncaught(i)
        \/ StepGate(i)
        \/ StepResetMemory(i)
        \/ StepSetLastMemoryReset(i)
        \/ StepAutoClean(i)
        \/ StepSessions(i)
        \/ StepLinks(i)
        \/ StepMcp(i)
        \/ StepOAuth(i)
        \/ StepEnv(i)
        \/ StepSpawn(i)
        \/ ChildExit(i)
        \/ StepReturn(i)

SpecRun == InitRun /\ [][NextRun]_vars

\* time passes where a launch can tell: before the gate is read (which is
\* also after the launch before), and between the reading, the deletions
\* and the record of the reset
TickOfLaunch(d) ==
    /\ \A i \in Invs :
          run[i].pc \in {"off", "cli", "resetMemory", "setLastMemoryReset"}
    /\ Tick(d)

NextDaily ==
    \/ NextRun
    \/ \E i \in Invs : ChildWrites(i) \/ Relaunch(i)
    \/ \E d \in {1, DAY_MS - 1, DAY_MS} : TickOfLaunch(d)

SpecDaily == InitDaily /\ [][NextDaily]_vars

\* two commands for one provider with memoryReset, given at the same time
InitRace ==
    /\ fs = InitFs([r \in Varied |-> TRUE], [r \in Varied |-> None], TRUE, TRUE)
    /\ dirs \in {[d \in {ClaudeDir, GlmDir} |->
                     IF d = ClaudeDir THEN "ok" ELSE ds] : ds \in {"ok", "blocked"}}
    /\ docs = [d \in {ClaudeDir, GlmDir} |->
                  IF d = ClaudeDir THEN SourceDoc1 ELSE NoDoc]
    /\ store = [d \in {ClaudeDir, GlmDir} |->
                   IF d = GlmDir /\ dirs[d] = "ok" THEN UsedStore ELSE EmptyStore]
    /\ clock = T0
    /\ provider_state \in {<<>>,
                           [k \in {"glm"} |-> T0 - DAY_MS],
                           [k \in {"glm"} |-> T0 - DAY_MS - 1]}
    /\ penv = CleanEnv
    /\ config = ConfigFile("valid",
                     [current |-> "anthropic",
                      providers |-> [k \in {"anthropic", "glm"} |->
                                       IF k = "glm" THEN DailyProvider
                                       ELSE DefaultProvider]])
    /\ run = [i \in Invs |->
                 Invocation("cli", "glm", DefaultProvider,
                            World(fs, dirs, docs, store), provider_state)]
    /\ resetLog = <<>>
    /\ InitLast

\* a millisecond passes while a command is on its way to the end of its
\* reset step
TickOfRace ==
    /\ \E i \in Invs :
          run[i].pc \in {"cli", "gate", "resetMemory", "setLastMemoryReset"}
    /\ Tick(1)

\* the processes take their steps in any order
NextRace ==
    \/ NextRun
    \/ TickOfRace

SpecRace == InitRace /\ [][NextRace]_vars

-----------------------------------------------------------------------------
(* What the claims speak of *)

\* a mapping without its order
MapOf(m) == [k \in Keys(m) |-> Get(m, k)]

TargetDirOf(rec) == expandPath(rec.call.cfg).comps

\* the parsed target document the call started from ({} when absent or bad)
TargetDataBefore(rec) ==
    LET d == readFileSync(rec.pre, docFile(expandPath(rec.call.cfg)))
    IN  IF d.st = "ok" THEN d ELSE EmptyObj

TargetFileBefore(rec) == readFileSync(rec.pre, docFile(expandPath(rec.call.cfg)))

TargetMapBefore(rec) == mcpServersOf(TargetDataBefore(rec))

SourceMapBefore(rec) == mcpServersOf(rec.pre.docs[ClaudeDir])

TargetDocNow(rec) == docs[TargetDirOf(rec)]

IsMcpCall(rec) == rec.call.op \in {"syncMcpServers", "syncMcpServersForSync"}

\* the source document exists with a non-empty mapping and the target
\* directory is another directory than ~/.claude
MergeApplies(rec) ==
    /\ IsMcpCall(rec)
    /\ rec.pre.docs[ClaudeDir].st = "ok"
    /\ Len(SourceMapBefore(rec)) > 0
    /\ ~SameDirectory(rec.call.cfg, CLAUDE)

\* the target directory exists and accepts the write of its document
TargetWritable(rec) == DirState(rec.pre, TargetDirOf(rec)) = "ok"

DocWritten(rec) == docs # rec.pre.docs

-----------------------------------------------------------------------------
(* C2: after a non-forced MCP merge (syncMcpServers, or                     *)
(* syncMcpServersForSync without force) into a writable directory other     *)
(* than ~/.claude, from a source with a non-empty mapping, the target       *)
(* document's mcpServers holds every source key with the source's value,    *)
(* every key only the target had with its old value, and no other key.      *)
C2_NonForcedMerge ==
    (MergeApplies(last) /\ ~last.call.force /\ TargetWritable(last)) =>
        LET s == SourceMapBefore(last)
            t == TargetMapBefore(last)
            d == TargetDocNow(last)
        IN  /\ d.st = "ok" /\ d.hasMcp
            /\ Keys(d.mcp) = Keys(s) \cup Keys(t)
            /\ \A k \in Keys(s) : Get(d.mcp, k) = Get(s, k)
            /\ \A k \in Keys(t) \ Keys(s) : Get(d.mcp, k) = Get(t, k)

\* a non-forced merge that met a conflicting key and a target-only key
C2_Witness ==
    /\ MergeApplies(last) /\ ~last.call.force /\ TargetWritable(last)
    /\ DocWritten(last)
    /\ \E k \in Keys(SourceMapBefore(last)) \cap Keys(TargetMapBefore(last)) :
          Get(SourceMapBefore(last), k) # Get(TargetMapBefore(last), k)
    /\ Keys(TargetMapBefore(last)) \ Keys(SourceMapBefore(last)) # {}

(* C3: after a forced syncMcpServersForSync the target document's          *)
(* mcpServers is the source mapping exactly; keys only the target had are  *)
(* gone.                                                                   *)
C3_ForcedMerge ==
    (MergeApplies(last) /\ last.call.force /\ TargetWritable(last)) =>
        LET d == TargetDocNow(last)
        IN  /\ d.st = "ok" /\ d.hasMcp
            /\ d.mcp = SourceMapBefore(last)
            /\ Keys(d.mcp) \cap (Keys(TargetMapBefore(last)) \ Keys(SourceMapBefore(last))) = {}

\* a forced merge over a target that had a key of its own
C3_Witness ==
    /\ MergeApplies(last) /\ last.call.force /\ TargetWritable(last)
    /\ Keys(TargetMapBefore(last)) \ Keys(SourceMapBefore(last)) # {}
    /\ last.ret = "true"

(* C4: when an MCP merge writes the target document, every top-level key   *)
(* other than mcpServers of a target document that parsed keeps its value. *)
C4_OtherKeysKept ==
    (IsMcpCall(last) /\ DocWritten(last)
        /\ readFileSync(last.pre, docFile(expandPath(last.call.cfg))).st = "ok") =>
        /\ TargetDocNow(last).oauth = TargetDataBefore(last).oauth
        /\ TargetDocNow(last).theme = TargetDataBefore(last).theme

\* a merge rewrote a document that held two other keys
C4_Witness ==
    /\ IsMcpCall(last) /\ DocWritten(last)
    /\ TargetDataBefore(last).oauth = "acct"
    /\ TargetDataBefore(last).theme = "dark"
    /\ TargetDocNow(last).mcp # TargetMapBefore(last)

\* the mapping a merge is to produce, without its order
MergedMapExpected(rec) ==
    IF rec.call.force THEN MapOf(SourceMapBefore(rec))
    ELSE [k \in Keys(SourceMapBefore(rec)) \cup Keys(TargetMapBefore(rec)) |->
            IF k \in Keys(SourceMapBefore(rec))
            THEN Get(SourceMapBefore(rec), k)
            ELSE Get(TargetMapBefore(rec), k)]

(* C5: an MCP merge writes the target document and returns true only when  *)
(* the merged mapping differs from the target's mapping; when the target   *)
(* mapping already equals the merged mapping (same keys, same values, in   *)
(* any key order) it returns false and writes nothing.                     *)
C5_WritesOnlyOnChange ==
    (MergeApplies(last) /\ TargetWritable(last)) =>
        IF MapOf(TargetMapBefore(last)) = MergedMapExpected(last)
        THEN last.ret \in {"false", "void"} /\ ~DocWritten(last)
        ELSE last.ret \in {"true", "void"} /\ DocWritten(last)

-----------------------------------------------------------------------------
(* C1: ensureSymlink is idempotent: called a second time right after a     *)
(* first call with the same source, target and force flag, it returns      *)
(* false and leaves the file system as the first call left it, from every  *)
(* initial state of the file system.                                       *)
C1_Idempotent ==
    (last.call.op = "ensureSymlink" /\ last.rep) =>
        (last.ret = "false" /\ Now = last.pre)

IsSync(rec) == rec.call.op = "syncSharedResources"

(* C6: syncSharedResources(configDir, force) returns null and writes       *)
(* nothing whenever configDir names the directory ~/.claude.               *)
C6_SourceIsNeverSynced ==
    (IsSync(last) /\ SameDirectory(last.call.cfg, CLAUDE)) =>
        (last.ret = "null" /\ Now = last.pre)

IndexOf(resource) ==
    CHOOSE i \in 1..Len(SHARED_RESOURCES) : SHARED_RESOURCES[i] = resource

TargetOf(rec, resource) == join(expandPath(rec.call.cfg), resource)

\* before the call the source existed and the target was a real file or
\* directory of another directory than ~/.claude
RealEntryBefore(rec, resource) ==
    /\ IsSync(rec)
    /\ ~SameDirectory(rec.call.cfg, CLAUDE)
    /\ existsSync(rec.pre, sourceOf(resource))
    /\ lstatSync(rec.pre, TargetOf(rec, resource)).kind \in {"file", "dir"}

(* C7: when the source exists and the target is a real file or directory,  *)
(* syncSharedResources without force reports 'skipped' for the resource    *)
(* and leaves the entry and its contents as they were; with force (the     *)
(* directory accepting the change) it reports 'forced' and the entry is    *)
(* then a symlink to the source.                                           *)
C7_UserDataKept ==
    \A r \in Resources :
        RealEntryBefore(last, r) =>
            IF ~last.call.force
            THEN /\ last.ret = "list"
                 /\ last.results[IndexOf(r)] = SyncResult(r, "skipped")
                 /\ lstatSync(Now, TargetOf(last, r))
                      = lstatSync(last.pre, TargetOf(last, r))
            ELSE TargetWritable(last) =>
                 /\ last.ret = "list"
                 /\ last.results[IndexOf(r)] = SyncResult(r, "forced")
                 /\ lstatSync(Now, TargetOf(last, r)) = Link(sourceOf(r))

\* a forced sync replaced a real directory that the sync before it, without
\* force, had reported skipped
C7_Witness ==
    \E r \in Resources :
        /\ RealEntryBefore(last, r) /\ last.call.force
        /\ lstatSync(last.pre, TargetOf(last, r)) = Dir(1)
        /\ last.prev = Call("syncSharedResources", last.call.cfg, "", FALSE)
        /\ last.prevResults[IndexOf(r)] = SyncResult(r, "skipped")
        /\ last.results[IndexOf(r)] = SyncResult(r, "forced")
        /\ lstatSync(Now, TargetOf(last, r)) = Link(sourceOf(r))

(* C9: for a target other than ~/.claude, syncSharedResources returns      *)
(* one result per entry of SHARED_RESOURCES, in the order of the list,     *)
(* whatever the file system state and also when creating, removing or      *)
(* linking an entry fails or the target's parent directory cannot be       *)
(* created.                                                                *)
C9_OneResultPerResource ==
    (IsSync(last) /\ ~SameDirectory(last.call.cfg, CLAUDE)) =>
        /\ last.ret = "list"
        /\ Len(last.results) >= Len(SHARED_RESOURCES)
        /\ \A i \in 1..Len(last.results) :
              last.results[i].resource =
                 IF i <= Len(SHARED_RESOURCES) THEN SHARED_RESOURCES[i]
                 ELSE "mcpServers"

-----------------------------------------------------------------------------
\* where the canonical copy of a shared resource lives
CanonicalSource(res) ==
    IF res = ".ccsignore" THEN Path(FALSE, <<"home", "u", ".ccsignore">>, FALSE)
    ELSE Path(FALSE, <<"home", "u", ".claude", res>>, FALSE)

\* the directory d held nothing (or did not exist yet) in the world W
EmptyBefore(W, d) ==
    /\ \A c \in DOMAIN W.fs : Parent(c) = d => W.fs[c] = None
    /\ W.docs[d] = NoDoc
    /\ W.store[d] = EmptyStore

\* a launch into an empty directory, other than ~/.claude, that accepts
\* entries, has returned
FreshLaunchReturned(i) ==
    LET dir == configDirOf(run[i].provider)
    IN  /\ run[i].pc = "returned"
        /\ ~SameDirectory(dir, CLAUDE)
        /\ DirState(run[i].pre, dir.comps) \in {"ok", "missing"}
        /\ EmptyBefore(run[i].pre, dir.comps)

(* C8: after runClaude for a provider whose config directory is not         *)
(* ~/.claude and was empty (and accepts new entries), every shared resource *)
(* whose canonical source exists is a symlink, under the provider's         *)
(* directory, whose link target is exactly that source; a resource whose    *)
(* source does not exist has no entry there.                                *)
C8_FreshDirLinked ==
    \A i \in Invs :
        FreshLaunchReturned(i) =>
            \A res \in Resources :
                lstatSync(Now, join(configDirOf(run[i].provider), res)) =
                    IF existsSync(run[i].pre, CanonicalSource(res))
                    THEN Link(CanonicalSource(res)) ELSE None

\* such a launch linked .ccsignore and found one source absent
C8_Witness ==
    \E i \in Invs :
        /\ FreshLaunchReturned(i)
        /\ DirState(run[i].pre, configDirOf(run[i].provider).comps) = "missing"
        /\ \E res \in Resources : ~existsSync(run[i].pre, CanonicalSource(res))
        /\ lstatSync(Now, join(configDirOf(run[i].provider), ".ccsignore"))
              = Link(CanonicalSource(".ccsignore"))

-----------------------------------------------------------------------------
\* the place of a step in the order of the preflight
Rank(step) ==
    CASE step = "reset" -> 1
      [] step = "clean" -> 2
      [] step = "truncate" -> 3
      [] step = "links" -> 4
      [] step = "mcp" -> 5
      [] step = "oauth" -> 6
      [] step = "env" -> 7
      [] OTHER -> 8

\* the preflight steps the provider of an invocation calls for, reset aside
Preflight(r) ==
    {"clean", "env"}
    \cup (IF r.provider.memoryReset THEN {"truncate"} ELSE {})
    \cup (IF ~isDefaultConfig(r.provider) THEN {"links", "mcp"} ELSE {})
    \cup (IF ~isDefaultConfig(r.provider) /\ r.provider.type = "api_key"
          THEN {"oauth"} ELSE {})

StepsOf(r) == {r.steps[n] : n \in 1..Len(r.steps)}

\* the steps done so far are in the order of the list, each at most once
StepsInOrder(r) ==
    \A a, b \in 1..Len(r.steps) : a < b => Rank(r.steps[a]) < Rank(r.steps[b])

\* a spawn comes after every preflight step, and never twice
SpawnAfterPreflight(r) ==
    /\ r.spawned <= 1
    /\ r.spawned = 1 => Preflight(r) \subseteq StepsOf(r)
    /\ r.child # "none" => r.spawned = 1

\* runClaude returns only when no child is running
ReturnAfterExit(r) == r.pc = "returned" => r.child \in {"exited", "failed"}

\* an invocation that is over has spawned the assistant once
SpawnedOnceWhenOver(r) == r.pc \in {"returned", "thrown"} => r.spawned = 1

(* C10: within one runClaude invocation the steps happen in the order       *)
(* memory reset (if due), cache cleanup, session truncation, symlink sync,  *)
(* MCP merge, OAuth strip, environment build, spawn; the assistant is       *)
(* spawned exactly once, only after every preflight step has finished, and  *)
(* runClaude returns only after the child has exited.                       *)
C10_OrderedSingleSpawn ==
    \A i \in Invs :
        /\ StepsInOrder(run[i])
        /\ SpawnAfterPreflight(run[i])
        /\ ReturnAfterExit(run[i])
        /\ SpawnedOnceWhenOver(run[i])

\* the same without the demand that every invocation reaches its spawn
C10_OrderOfTheStepsTaken ==
    \A i \in Invs :
        /\ StepsInOrder(run[i])
        /\ SpawnAfterPreflight(run[i])
        /\ ReturnAfterExit(run[i])

-----------------------------------------------------------------------------
\* the path string /home/u/.claude
CanonicalDir == Path(FALSE, <<"home", "u", ".claude">>, FALSE)

SyncSteps == {"links", "mcp", "oauth"}

-----------------------------------------------------------------------------
\* the shared resources and the .claude.json of ~/.claude are as the launch
\* of invocation i found them
CanonicalResourcesKept(i) ==
    /\ \A c \in DOMAIN fs : Parent(c) = ClaudeDir => fs[c] = run[i].pre.fs[c]
    /\ docs[ClaudeDir] = run[i].pre.docs[ClaudeDir]

\* so are the other subtrees and files of ~/.claude
CanonicalStoreKept(i) == store[ClaudeDir] = run[i].pre.store[ClaudeDir]

(* C12: no launch of runClaude, with any provider, creates, deletes,        *)
(* truncates or rewrites a file or directory inside ~/.claude; the OAuth    *)
(* strip rewrites only the .claude.json of another directory.               *)
C12_CanonicalTreeUntouched ==
    \A i \in Invs :
        run[i].pc # "off" => CanonicalResourcesKept(i) /\ CanonicalStoreKept(i)

\* the part of C12 that speaks of the shared resources and .claude.json
C12_CanonicalResourcesUntouched ==
    \A i \in Invs : run[i].pc # "off" => CanonicalResourcesKept(i)

-----------------------------------------------------------------------------
IsGateQuery == last.call.op = "shouldResetMemory"

(* C13: shouldResetMemory(key) is true for a key without a row in           *)
(* provider_state; it is false right after setLastMemoryReset(key) recorded *)
(* the current time; and for a key with a row it is true exactly when the   *)
(* current time exceeds the stored timestamp by more than 24 hours.         *)
C13_ResetGate ==
    IsGateQuery =>
        LET key == last.call.res
        IN  /\ key \notin DOMAIN provider_state => last.ret = "true"
            /\ (last.prev.op = "setLastMemoryReset" /\ last.prev.res = key)
                  => last.ret = "false"
            /\ key \in DOMAIN provider_state =>
                  (last.ret = "true" <=> clock - provider_state[key] > 24 * 60 * 60 * 1000)

\* the gate is asked exactly 24 hours after a recorded reset, and says no
C13_Witness ==
    /\ IsGateQuery
    /\ last.call.res \in DOMAIN provider_state
    /\ clock - provider_state[last.call.res] = 24 * 60 * 60 * 1000
    /\ last.ret = "false"

\* the gate is asked a millisecond later, and says yes
C13_WitnessDue ==
    /\ IsGateQuery
    /\ last.call.res \in DOMAIN provider_state
    /\ clock - provider_state[last.call.res] = 24 * 60 * 60 * 1000 + 1
    /\ last.ret = "true"

-----------------------------------------------------------------------------
\* the reset was due when the command of invocation r began
DueAtLaunch(r) ==
    /\ r.provider.memoryReset
    /\ \/ r.key \notin DOMAIN r.table
       \/ clock - r.table[r.key] > 24 * 60 * 60 * 1000

InResetStep(r) == r.pc \in {"resetMemory", "setLastMemoryReset"}

PastResetStep(r) == r.pc \notin {"off", "cli", "gate", "resetMemory", "setLastMemoryReset"}

\* the size of a reset target of invocation r's directory in the world W
TargetSize(W, r, subdir) == getDirSize(W, configDirOf(r.provider), subdir)

ResetTargets == {MEMORY_RESET_TARGETS[n] : n \in 1..Len(MEMORY_RESET_TARGETS)}

(* C14: when runClaude executes the memory-reset step (memoryReset set and  *)
(* the gate due) it has recorded the current time for the provider key      *)
(* before it goes on, whether or not bytes were freed or a deletion failed; *)
(* the step is entered, and a reset target deleted, only when memoryReset   *)
(* is set and the gate is due.                                              *)
C14_ResetAdvancesGate ==
    \A i \in Invs :
        LET r == run[i]
        IN  /\ (PastResetStep(r) /\ DueAtLaunch(r)) =>
                  /\ r.key \in DOMAIN provider_state
                  /\ provider_state[r.key] = clock
            /\ InResetStep(r) => DueAtLaunch(r)
            /\ (r.pc \notin {"off", "cli"} /\ ~DueAtLaunch(r)) =>
                  /\ provider_state = r.table
                  /\ \A t \in ResetTargets :
                        TargetSize(r.pre, r, t) > 0 => TargetSize(Now, r, t) > 0

\* a due reset in a directory that refuses deletions freed nothing and the
\* key, which had no row, has one now
C14_Witness ==
    \E i \in Invs :
        /\ run[i].pc = "clean"
        /\ DueAtLaunch(run[i])
        /\ run[i].key \notin DOMAIN run[i].table
        /\ TargetSize(run[i].pre, run[i], "projects") > 0
        /\ TargetSize(Now, run[i], "projects") = TargetSize(run[i].pre, run[i], "projects")
        /\ provider_state[run[i].key] = clock

\* a due reset that had nothing to free
C14_WitnessNothingFreed ==
    \E i \in Invs :
        /\ run[i].pc = "clean"
        /\ DueAtLaunch(run[i])
        /\ \A t \in ResetTargets : TargetSize(run[i].pre, run[i], t) = 0
        /\ provider_state[run[i].key] = clock

\* a due reset that deleted its targets
C14_WitnessFreed ==
    \E i \in Invs :
        /\ run[i].pc = "clean"
        /\ DueAtLaunch(run[i])
        /\ TargetSize(run[i].pre, run[i], "projects") > 0
        /\ \A t \in ResetTargets : TargetSize(Now, run[i], t) = 0

-----------------------------------------------------------------------------
(* C15: over launches of one provider key that run one after another, any   *)
(* two executions of the memory reset for the key are more than 24 hours    *)
(* apart, and a launch made while no more than 24 hours have passed since   *)
(* the recorded reset deletes none of the MEMORY_RESET_TARGETS.             *)
C15_ResetAtMostDaily ==
    /\ \A a, b \in 1..Len(resetLog) :
          (a < b /\ resetLog[a].key = resetLog[b].key) =>
              resetLog[b].at - resetLog[a].at > 24 * 60 * 60 * 1000
    /\ \A i \in Invs :
          LET r == run[i]
          IN  (r.pc \notin {"off", "cli"} /\ r.key \in DOMAIN r.table
                  /\ clock - r.table[r.key] <= 24 * 60 * 60 * 1000) =>
                 /\ ~InResetStep(r)
                 /\ \A t \in ResetTargets :
                       TargetSize(r.pre, r, t) > 0 => TargetSize(Now, r, t) > 0

\* the reset ran twice, and a launch exactly 24 hours after the recorded
\* reset found its targets and has left them
C15_Witness ==
    /\ Len(resetLog) = 2
    /\ \E i \in Invs :
          /\ run[i].pc = "returned"
          /\ run[i].key \in DOMAIN run[i].table
          /\ clock - run[i].table[run[i].key] = 24 * 60 * 60 * 1000
          /\ TargetSize(run[i].pre, run[i], "projects") > 0

-----------------------------------------------------------------------------
(* C16: runClaude returns exactly the status the spawned assistant exited   *)
(* with, 0 and 1 included; it returns 1 when the child reported no status;  *)
(* and the run command ends the process with the value runClaude returned.  *)
C16_ExitStatusPassedThrough ==
    \A i \in Invs :
        LET r == run[i]
        IN  (r.pc \in {"returned", "exited"} /\ r.spawned = 1) =>
                /\ r.status.has => (r.ret.has /\ r.ret.code = r.status.code)
                /\ ~r.status.has => (r.ret.has /\ r.ret.code = 1)
                /\ r.pc = "exited" => r.exit = r.ret

\* the assistant exited with 0 and the process has ended with 0
C16_Witness ==
    \E i \in Invs :
        /\ run[i].pc = "exited"
        /\ run[i].child = "exited"
        /\ run[i].status = Status(0)
        /\ run[i].exit = Status(0)

\* the assistant was killed by a signal and the process has ended with 1
C16_WitnessNoStatus ==
    \E i \in Invs :
        /\ run[i].pc = "exited"
        /\ run[i].child = "exited"
        /\ ~run[i].status.has
        /\ run[i].exit = Status(1)

-----------------------------------------------------------------------------
\* what runClaude hands its caller when a child started and exited
ReturnsOfStartedChild == {statusOrOne(st) : st \in {Status(0), Status(1), Status(2), NoStatus}}

(* C17: when the assistant binary cannot be found or executed, what         *)
(* runClaude hands its caller is a launch failure that a caller can tell    *)
(* from the return of a child that started and exited.                      *)
C17_LaunchFailureSurfaced ==
    \A i \in Invs :
        (run[i].pc \in {"returned", "exited"} /\ run[i].child = "failed") =>
            run[i].ret \notin ReturnsOfStartedChild

-----------------------------------------------------------------------------
\* the run command of invocation r was given a key the store does not hold
UnknownProvider(r) ==
    r.pc \notin {"off", "cli"} /\ r.key \notin DOMAIN config.providers

(* C18: when the run command is given a provider key that is not in the     *)
(* provider store, the process ends with exit code 1, no preflight step has *)
(* run (nothing on disk and no reset timestamp has changed), the assistant  *)
(* has not been spawned and the stored current provider is unchanged.       *)
C18_UnknownProviderRefused ==
    \A i \in Invs :
        UnknownProvider(run[i]) =>
            /\ run[i].pc = "exited"
            /\ run[i].exit.has /\ run[i].exit.code = 1
            /\ run[i].steps = <<>>
            /\ run[i].spawned = 0 /\ run[i].child = "none"
            /\ Now = run[i].pre
            /\ provider_state = run[i].table
            /\ resetLog = <<>>
            /\ config.current = "anthropic"

\* the same for the keys no object inherits
C18_UnknownNameRefused ==
    \A i \in Invs :
        (UnknownProvider(run[i]) /\ run[i].key \notin InheritedKeys) =>
            /\ run[i].pc = "exited"
            /\ run[i].exit.has /\ run[i].exit.code = 1
            /\ run[i].steps = <<>>
            /\ run[i].spawned = 0 /\ run[i].child = "none"
            /\ Now = run[i].pre
            /\ provider_state = run[i].table
            /\ resetLog = <<>>
            /\ config.current = "anthropic"

\* ccs run constructor: the assistant runs on ~/.claude and the stored
\* current key is "constructor"
C18_WitnessInheritedKey ==
    \E i \in Invs :
        /\ UnknownProvider(run[i]) /\ run[i].key \in InheritedKeys
        /\ run[i].child = "running"
        /\ config.current = run[i].key

\* an unknown key was refused although its directory was over the cleanup
\* thresholds
C18_Witness ==
    \E i \in Invs :
        /\ UnknownProvider(run[i])
        /\ run[i].exit = Status(1)
        /\ store[GlmDir] = UsedStore

-----------------------------------------------------------------------------
(* C19: for a resolved provider no launch is aborted before its spawn: no   *)
(* filesystem error of a preflight step, the creation of a link's parent    *)
(* directory included, leaves runClaude as an exception.                    *)
C19_PreflightNeverAborts ==
    \A i \in Invs : run[i].pc \notin {"thrown", "crashed"}

\* the same for directories that exist, writable or not
C19_ExistingDirNeverAborts ==
    \A i \in Invs :
        (run[i].pc \notin {"off", "cli"}
            /\ DirExists(run[i].pre, configDirOf(run[i].provider).comps)) =>
                run[i].pc \notin {"thrown", "crashed"}

-----------------------------------------------------------------------------
EnvBuilt(r) == r.pc \in {"spawn", "wait", "return", "returned", "exited"} /\ r.steps # <<>>

\* the inherited NODE_OPTIONS holds a --max-old-space-size flag
InheritsHeapFlag ==
    /\ penv.NODE_OPTIONS.set
    /\ \E n \in 1..Len(penv.NODE_OPTIONS.words) :
          penv.NODE_OPTIONS.words[n] = "--max-old-space-size=4096"

\* provider.env defines the key k
Defines(provider, k) == provider.env.has /\ provider.env.vars[k].set

(* C20: the child environment equals the parent environment except for      *)
(* CLAUDE_CONFIG_DIR, the resolved config directory; NODE_OPTIONS, left as   *)
(* inherited when it holds a --max-old-space-size flag and else extended     *)
(* with --max-old-space-size=8192; and, for api_key providers only, each     *)
(* key of provider.env with a defined value, set to that value.              *)
C20_ChildEnvironment ==
    \A i \in Invs :
        LET r == run[i]
        IN  EnvBuilt(r) =>
              /\ r.env.CLAUDE_CONFIG_DIR = configDirOf(r.provider)
              /\ IF InheritsHeapFlag
                 THEN r.env.NODE_OPTIONS = penv.NODE_OPTIONS
                 ELSE /\ r.env.NODE_OPTIONS.set
                      /\ r.env.NODE_OPTIONS.words =
                           (IF penv.NODE_OPTIONS.set THEN penv.NODE_OPTIONS.words
                            ELSE <<>>) \o <<"--max-old-space-size=8192">>
              /\ \A k \in CredKeys :
                    r.env.creds[k] =
                        IF r.provider.type = "api_key" /\ Defines(r.provider, k)
                        THEN r.provider.env.vars[k] ELSE penv.creds[k]

\* an api_key provider's token replaced the inherited one, its undefined
\* model left the inherited one, and the inherited heap flag was kept
C20_Witness ==
    \E i \in Invs :
        /\ EnvBuilt(run[i])
        /\ run[i].provider.type = "api_key"
        /\ InheritsHeapFlag
        /\ penv.creds["ANTHROPIC_AUTH_TOKEN"].set
        /\ run[i].env.creds["ANTHROPIC_AUTH_TOKEN"] # penv.creds["ANTHROPIC_AUTH_TOKEN"]
        /\ ~Defines(run[i].provider, "ANTHROPIC_MODEL")
        /\ run[i].env.creds["ANTHROPIC_MODEL"] = penv.creds["ANTHROPIC_MODEL"]

\* an oauth provider that carries env entries: none was applied
C20_WitnessOAuth ==
    \E i \in Invs :
        /\ EnvBuilt(run[i])
        /\ run[i].provider.type = "oauth"
        /\ Defines(run[i].provider, "ANTHROPIC_AUTH_TOKEN")
        /\ run[i].env.creds = penv.creds

-----------------------------------------------------------------------------
\* the preflight of invocation r is over
PreflightDone(r) ==
    r.pc \in {"spawn", "wait", "return", "returned", "exited"} /\ r.steps # <<>>

DocBefore(r) == readFileSync(r.pre, docFile(configDirOf(r.provider)))

DocAfter(r) == readFileSync(Now, docFile(configDirOf(r.provider)))

\* the document the MCP merge of the launch leaves, before the strip
DocMerged(r) == readFileSync(syncMcpServers(r.pre, configDirOf(r.provider)).W,
                             docFile(configDirOf(r.provider)))

\* the provider's document existed and parsed, in a directory other than
\* ~/.claude that accepts writes
StripApplies(r) ==
    /\ PreflightDone(r)
    /\ ~SameDirectory(configDirOf(r.provider), CLAUDE)
    /\ DocBefore(r).st = "ok"
    /\ DirState(r.pre, configDirOf(r.provider).comps) = "ok"

(* C21: after the preflight of a launch for an api_key provider whose       *)
(* config directory is not ~/.claude, the provider's .claude.json (when it  *)
(* exists and parses) has no oauthAccount key, whatever value the key held, *)
(* and its other keys are as the merge left them; for an oauth provider the *)
(* oauthAccount key is never removed.                                       *)
C21_OAuthStripped ==
    \A i \in Invs :
        LET r == run[i]
        IN  StripApplies(r) =>
              IF r.provider.type = "api_key"
              THEN /\ DocAfter(r).oauth = "absent"
                   /\ DocAfter(r).theme = DocBefore(r).theme
                   /\ DocAfter(r).mcp = DocMerged(r).mcp
              ELSE DocAfter(r) = DocMerged(r)

\* the same for the documents whose oauthAccount is an account object or
\* is not there
C21_AccountObjectStripped ==
    \A i \in Invs :
        LET r == run[i]
        IN  (StripApplies(r) /\ DocBefore(r).oauth # "null") =>
              IF r.provider.type = "api_key"
              THEN /\ DocAfter(r).oauth = "absent"
                   /\ DocAfter(r).theme = DocBefore(r).theme
                   /\ DocAfter(r).mcp = DocMerged(r).mcp
              ELSE DocAfter(r) = DocMerged(r)

\* an api_key launch removed an account object and kept the other keys
C21_WitnessStripped ==
    \E i \in Invs :
        /\ StripApplies(run[i])
        /\ run[i].provider.type = "api_key"
        /\ DocBefore(run[i]).oauth = "acct"
        /\ DocAfter(run[i]).oauth = "absent"
        /\ DocAfter(run[i]).theme = "dark"

-----------------------------------------------------------------------------
\* the config directory of the last call, and its store before and after
CleanedDir(rec) == expandPath(rec.call.cfg).comps

StoreBefore(rec) == rec.pre.store[CleanedDir(rec)]

StoreAfter(rec) == store[CleanedDir(rec)]

\* the directory of the last call accepts deletions and writes
CleanedDirWritable(rec) == DirState(rec.pre, CleanedDir(rec)) = "ok"

(* C22: autoClean deletes the whole subtree of shell-snapshots (threshold   *)
(* 10MB) and of debug (threshold 5MB) under the config directory when its   *)
(* measured size is strictly greater than the threshold and leaves it       *)
(* untouched when the size is at or below it; no path outside the           *)
(* CLEAN_THRESHOLDS table is removed by autoClean.                          *)
C22_SizeTriggeredCleanup ==
    (last.call.op = "autoClean" /\ CleanedDirWritable(last)) =>
        /\ StoreAfter(last).trees["shell-snapshots"] =
              IF StoreBefore(last).trees["shell-snapshots"] > 10 * 1024 * 1024
              THEN 0 ELSE StoreBefore(last).trees["shell-snapshots"]
        /\ StoreAfter(last).trees["debug"] =
              IF StoreBefore(last).trees["debug"] > 5 * 1024 * 1024
              THEN 0 ELSE StoreBefore(last).trees["debug"]
        /\ \A t \in TreeNames \ {"shell-snapshots", "debug"} :
              StoreAfter(last).trees[t] = StoreBefore(last).trees[t]
        /\ StoreAfter(last).sessions = StoreBefore(last).sessions
        /\ StoreBefore(last).history.lines # <<>> =>
              StoreAfter(last).history.lines # <<>>
        /\ fs = last.pre.fs /\ docs = last.pre.docs /\ dirs = last.pre.dirs

\* debug, one byte over its threshold, was deleted; shell-snapshots, exactly
\* at its threshold, was kept, and so was a cache outside the table
C22_Witness ==
    /\ last.call.op = "autoClean" /\ CleanedDirWritable(last)
    /\ StoreBefore(last).trees["debug"] = 5 * 1024 * 1024 + 1
    /\ StoreAfter(last).trees["debug"] = 0
    /\ StoreBefore(last).trees["shell-snapshots"] = 10 * 1024 * 1024
    /\ StoreAfter(last).trees["shell-snapshots"] = 10 * 1024 * 1024
    /\ StoreAfter(last).trees["file-history"] > 0

\* the other way round
C22_WitnessShell ==
    /\ last.call.op = "autoClean" /\ CleanedDirWritable(last)
    /\ StoreBefore(last).trees["shell-snapshots"] = 10 * 1024 * 1024 + 1
    /\ StoreAfter(last).trees["shell-snapshots"] = 0
    /\ StoreBefore(last).trees["debug"] = 5 * 1024 * 1024
    /\ StoreAfter(last).trees["debug"] = 5 * 1024 * 1024

-----------------------------------------------------------------------------
\* the records of history.jsonl before and after the last call
RecordsBefore(rec) == nonBlank(StoreBefore(rec).history.lines)

RecordsAfter(rec) == nonBlank(StoreAfter(rec).history.lines)

\* the ratio of the last truncateSessionFile call, in tenths
RatioTenths(rec) == IF rec.call.res = "history" THEN 3 ELSE 2

\* the number of records the claim says a file of n records keeps
KeptOf(n, tenths) == IF (n * tenths) \div 10 > 10 THEN (n * tenths) \div 10 ELSE 10

IsTruncate(rec) == rec.call.op = "truncateSessionFile" /\ CleanedDirWritable(rec)

(* C23: truncateSessionFile(path, ratio) on a file with n non-blank         *)
(* records: when n <= 10 the file is not modified and false is returned,    *)
(* whatever its byte size; when n > 10 the file afterwards holds exactly    *)
(* the last max(10, floor(n * ratio)) records in their original order (300  *)
(* of 1000 at ratio 0.3), so truncation, repeated or not, never leaves      *)
(* fewer than 10 records of a file that had 10.                             *)
C23_TruncationKeepsTail ==
    /\ keepCount(1000, HISTORY_TRUNCATION_RATIO) = 300
    /\ IsTruncate(last) =>
         LET before == RecordsBefore(last)
             n      == Len(before)
             k      == KeptOf(n, RatioTenths(last))
         IN  IF n <= 10
             THEN /\ last.ret = "false"
                  /\ StoreAfter(last).history = StoreBefore(last).history
             ELSE /\ last.ret = "true"
                  /\ Len(RecordsAfter(last)) = k
                  /\ \A j \in 1..k : RecordsAfter(last)[j] = before[n - k + j]
    /\ (last.call.op \in {"truncateSessionFile", "autoClean"}
          /\ Len(RecordsBefore(last)) >= 10) => Len(RecordsAfter(last)) >= 10

\* a file of more than 10 records, blank lines among them, was cut to more
\* than 10: the ratio decided
C23_Witness ==
    /\ IsTruncate(last)
    /\ last.ret = "true"
    /\ Len(StoreBefore(last).history.lines) > Len(RecordsBefore(last)) + 1
    /\ Len(RecordsAfter(last)) > 10
    /\ RecordsAfter(last)[1] > 1

\* a file of 10 heavy records was left alone
C23_WitnessSmall ==
    /\ IsTruncate(last)
    /\ Len(RecordsBefore(last)) = 10
    /\ last.ret = "false"

\* a file already truncated was truncated again and kept 10 records
C23_WitnessRepeated ==
    /\ IsTruncate(last) /\ last.rep
    /\ last.ret = "true"
    /\ Len(RecordsAfter(last)) = 10

-----------------------------------------------------------------------------
\* the files under projects/ that the last call changed
Truncated(rec) ==
    {j \in 1..Len(StoreBefore(rec).sessions) :
        StoreAfter(rec).sessions[j] # StoreBefore(rec).sessions[j]}

RECURSIVE SumShrunk(_, _)
SumShrunk(rec, J) ==
    IF J = {} THEN 0
    ELSE LET j == CHOOSE x \in J : TRUE
         IN  (fileSize(StoreBefore(rec).sessions[j])
                 - fileSize(StoreAfter(rec).sessions[j]))
             + SumShrunk(rec, J \ {j})

SessionsKept(r) ==
    LET d == configDirOf(r.provider).comps
    IN  store[d].sessions = r.pre.store[d].sessions

\* the part of C24 that speaks of the launch: without memoryReset no file
\* under projects/ is modified
C24_OnlyWithMemoryReset ==
    \A i \in Invs :
        (run[i].pc \notin {"off", "cli"} /\ ~run[i].provider.memoryReset) =>
            SessionsKept(run[i])

\* a launch with memoryReset whose reset was not due truncated a session file
C24_WitnessLaunch ==
    \E i \in Invs :
        /\ run[i].pc = "returned"
        /\ run[i].provider.memoryReset
        /\ "reset" \notin StepsOf(run[i])
        /\ ~SessionsKept(run[i])

-----------------------------------------------------------------------------
IsMeasure(rec) == rec.call.op = "getDirSize"

\* a symbolic link lies in the subtree of the path the last call measured
LinkBelow(rec) ==
    \E c \in DOMAIN rec.pre.fs :
        /\ Len(c) >= Len(rec.call.cfg.comps)
        /\ SubSeq(c, 1, Len(rec.call.cfg.comps)) = rec.call.cfg.comps
        /\ rec.pre.fs[c].kind = "link"

(* C25: getDirSize never follows a symbolic link: it descends only into     *)
(* real subdirectories, the size it returns for a directory is the sum of   *)
(* the sizes of the regular files reached that way, and it terminates on a  *)
(* tree that contains cyclic symlinks.                                      *)
C25_NeverFollowsLinks ==
    IsMeasure(last) =>
        /\ last.results[1] \in Nat
        /\ last.results[1] =
              getDirSizeOfTreeNoFollow(last.pre.fs, last.call.cfg.comps)

\* the same for subtrees that hold no symbolic link
C25_SumOfFilesWithoutLinks ==
    (IsMeasure(last) /\ ~LinkBelow(last)) =>
        last.results[1] =
            getDirSizeOfTreeNoFollow(last.pre.fs, last.call.cfg.comps)

\* the measure of a tree with a link that leads back to its root has ended
\* with more than the files of the tree weigh
C25_WitnessCycle ==
    /\ IsMeasure(last)
    /\ last.call.cfg.comps = DebugDir
    /\ last.pre.fs[DebugDir \o <<"d", "l">>] = Link(AbsPath(DebugDir))
    /\ last.pre.fs[DebugDir \o <<"f">>] = File(3)
    /\ last.results[1] >
          getDirSizeOfTreeNoFollow(last.pre.fs, last.call.cfg.comps)

-----------------------------------------------------------------------------
(* C26: when the target .claude.json exists but cannot be parsed, the MCP   *)
(* merge is not aborted: it proceeds from an empty document, so afterwards  *)
(* the target document's mcpServers equals the source mapping and nothing   *)
(* else of the old text is in it, and the call reports a change (true for   *)
(* syncMcpServersForSync), never an error or the no-op signal.              *)
C26_UnparseableTargetReplaced ==
    (MergeApplies(last) /\ TargetWritable(last)
        /\ TargetFileBefore(last).st = "bad") =>
        /\ TargetDocNow(last) =
              Doc("ok", TRUE, SourceMapBefore(last), "absent", "absent")
        /\ last.ret = IF last.call.op = "syncMcpServersForSync"
                      THEN "true" ELSE "void"

\* the merge of the sync command met a file cut short that named a server
\* the source does not have
C26_Witness ==
    /\ MergeApplies(last) /\ TargetWritable(last)
    /\ last.call.op = "syncMcpServersForSync"
    /\ TargetFileBefore(last) = CutDoc
    /\ "c" \notin Keys(SourceMapBefore(last))
    /\ last.ret = "true"
    /\ TargetDocNow(last).st = "ok"

\* the merge of a launch did the same
C26_WitnessLaunchMerge ==
    /\ MergeApplies(last) /\ TargetWritable(last)
    /\ last.call.op = "syncMcpServers"
    /\ TargetFileBefore(last).st = "bad"
    /\ TargetDocNow(last).mcp = SourceMapBefore(last)

-----------------------------------------------------------------------------
\* the timestamps the invocations gave setLastMemoryReset
Stamps == {run[i].stamp.code : i \in {j \in Invs : run[j].stamp.has}}

\* how often invocation i has executed resetMemory
ResetsBy(i) == Cardinality({n \in 1..Len(resetLog) : resetLog[n].by = i})

BothPastReset == \A i \in Invs : PastResetStep(run[i])

C27_WitnessSingle ==
    /\ BothPastReset
    /\ ResetsBy(1) = 1 /\ ResetsBy(2) = 0
    /\ provider_state["glm"] = run[1].stamp.code

-----------------------------------------------------------------------------
\* the steps of runClaude before the child is spawned
PreflightPcs ==
    {"gate", "resetMemory", "setLastMemoryReset", "autoClean", "sessions",
     "links", "mcp", "oauth", "env"}

\* invocation j takes a preflight step while the child of i runs
PreflightBesideChild(i, j) ==
    /\ i # j
    /\ run[i].pc = "wait" /\ run[i].child = "running"
    /\ run[j].pc \in PreflightPcs
    /\ run'[j] # run[j]

(* C28: invocations do not interfere through the filesystem: while the      *)
(* assistant child of one invocation is running on a config directory, the  *)
(* preflight of another invocation for a provider with the same config      *)
(* directory never deletes or truncates state under that directory          *)
(* (projects, file-history, session-env, plans, todos, shell-snapshots,     *)
(* debug, history.jsonl).                                                   *)
C28_NoInterference ==
    [][\A i, j \in Invs :
          PreflightBesideChild(i, j) => store'[GlmDir] = store[GlmDir]]_vars

\* the steps of a preflight other than resetMemory, autoClean and
\* cleanOversizedSessions leave the state under the directory alone
C28_OtherStepsKeepState ==
    [][\A i, j \in Invs :
          (PreflightBesideChild(i, j)
             /\ run[j].pc \notin {"resetMemory", "autoClean", "sessions"})
          => store'[GlmDir] = store[GlmDir]]_vars

\* the child of invocation 1 runs and the projects of its directory have
\* been removed by the reset step of invocation 2
C28_WitnessResetBesideChild ==
    /\ run[1].pc = "wait" /\ run[1].child = "running"
    /\ Len(resetLog) = 2 /\ resetLog[2].by = 2
    /\ run[2].pc = "setLastMemoryReset"
    /\ store[GlmDir].sessions = <<>>

-----------------------------------------------------------------------------
\* what a command reads from config.json
StoredConfig == readConfig(config)

\* the stored config has at least one provider and its current key names one
StoreIsSound(cfg) ==
    /\ DOMAIN cfg.providers # {}
    /\ cfg.current \in DOMAIN cfg.providers

\* the call that is about to return was one the claim names as failing: adding
\* an existing key, removing an unknown key or the last provider, switching
\* to an unknown key
MustFail(call, cfg) ==
    \/ call.op = "addProvider" /\ call.res \in DOMAIN cfg.providers
    \/ call.op = "removeProvider"
         /\ (call.res \notin DOMAIN cfg.providers
               \/ Cardinality(DOMAIN cfg.providers) = 1)
    \/ call.op = "setCurrentProvider" /\ call.res \notin DOMAIN cfg.providers

StoreOps == {"addProvider", "removeProvider", "setCurrentProvider"}

FailingCallRefused ==
    (config.st = "valid" /\ last'.call.op \in StoreOps
       /\ MustFail(last'.call, StoredConfig))
    => (last'.ret \in {"failure", "false"} /\ config' = config)

(* C29: after any sequence of addProvider, removeProvider and               *)
(* setCurrentProvider calls starting from a valid config, the stored config *)
(* has at least one provider and its current key names an existing          *)
(* provider; a failing call (adding an existing key, removing an unknown    *)
(* key or the last provider, switching to an unknown key) returns a failure *)
(* and leaves the stored config unchanged.                                  *)
C29_StoreInvariant ==
    /\ [](config.st = "valid" => StoreIsSound(config))
    /\ [][FailingCallRefused]_vars

\* the same for the keys no object inherits, as long as the current key is
\* none of those either
C29_OwnKeysInvariant ==
    /\ [](config.st = "valid" =>
             /\ DOMAIN config.providers # {}
             /\ config.current \in DOMAIN config.providers \cup InheritedKeys)
    /\ [][last'.call.res \notin InheritedKeys => FailingCallRefused]_vars

\* the last provider was not removed
C29_WitnessLastKept ==
    /\ last.call.op = "removeProvider" /\ last.ret = "failure"
    /\ config.st = "valid"
    /\ DOMAIN config.providers = {last.call.res}

\* the current provider was removed and another one is current
C29_WitnessCurrentRemoved ==
    /\ last.call.op = "removeProvider" /\ last.ret = "success"
    /\ last.prev.op = "setCurrentProvider" /\ last.prev.res = last.call.res
    /\ StoreIsSound(config)

\* setCurrentProvider("constructor") returned true and the stored current key
\* names no provider
C29_WitnessInheritedKey ==
    /\ last.call.op = "setCurrentProvider" /\ last.ret = "true"
    /\ config.st = "valid"
    /\ config.current \notin DOMAIN config.providers

-----------------------------------------------------------------------------
(* C30: when config.json exists but is invalid (bad JSON or failing the     *)
(* schema), no provider-store operation (setCurrentProvider, addProvider,   *)
(* removeProvider, a run with a provider name) overwrites the invalid file: *)
(* the user's providers stay on disk.                                       *)
C30_InvalidFileKept ==
    [][config.st = "invalid" => config' = config]_vars

\* removeProvider and every call that reports a failure leave the invalid
\* file as it is
C30_RefusalsKeepFile ==
    [][(config.st = "invalid"
          /\ (last'.call.op = "removeProvider"
                \/ last'.ret \in {"failure", "false"}))
       => config' = config]_vars

\* a call that succeeds on an invalid file writes the default configuration,
\* changed by the call, in its place
C30_SuccessReplacesFile ==
    [][(config.st = "invalid" /\ last'.ret \in {"success", "true"}
          /\ last'.call.op # "removeProvider")
       => /\ config'.st = "valid"
          /\ DOMAIN config'.providers \subseteq {"anthropic", last'.call.res}
          /\ config'.providers # UserConfig.providers]_vars

====
